---- MODULE Spec2Model ----
(***************************************************************************)
(* cec-sync: the daemon's request task (connection lifecycle), the event   *)
(* channel between the libcec callbacks and the proxies, the               *)
(* systemd-logind sleep/resume backend, the MPRIS aggregation backend, the *)
(* udev hotplug filter, the IPC datagram codec and stream, the translation *)
(* of meta-commands to native calls, and the command-line client.          *)
(*                                                                         *)
(* An Option<T> is modelled as a set with at most one element: {} is None  *)
(* and {x} is Some(x).                                                     *)
(***************************************************************************)
EXTENDS Integers, Sequences, FiniteSets, TLC

\* Bounds of the model (not program constants).
MaxArrivals == 3
MaxArrivalsEv == 1
MaxEvents == 3
MaxSignals == 4
MaxStandby == 2
MaxOwnerSignals == 1
MaxStatusChanges == 2
MaxUdevEvents == 2
MaxDatagrams == 3
MaxCodecSends == 1
MaxArrivalsFail == 2
MaxEventsFail == 2
MaxGlobals == 3
MaxDone == 2
MaxKeys == 2
MaxDispatches == 2
MaxKeyDispatches == 2

VARIABLES
    pc,         \* position of the request task of serve()
    cec,        \* serve()'s `cec`: Option<Arc<CecConnection>>
    sessions,   \* the native libcec sessions that are open
    built,      \* the value cec_build returned, not yet assigned to `cec`
    cfgPort,    \* the port of the configuration being opened ("none": autodetect)
    attempts,   \* number of native open calls made so far
    lastOpen,   \* the last native open call: its port, outcome, sessions open at the call
    cur,        \* the stream item the request task is applying
    inbox,      \* per backend stream: the items it has ready, oldest first
    produced,   \* history: the Requests each backend stream produced
    applied,    \* history: the Requests the request task has applied
    arrivals,   \* number of stream items produced so far
    opened,     \* history: every native session that was ever opened
    rlog        \* the error lines log_result wrote in the request task, each
                \* with the number of Requests applied by then

orchVars == <<pc, cec, sessions, built, cfgPort, attempts, lastOpen, cur, inbox,
              produced, applied, arrivals, opened, rlog>>

VARIABLES
    queue,      \* the unbounded async_channel from the callbacks to the event task
    published,  \* history: every Event a callback has sent
    inflight,   \* the Events whose dispatch has started and not finished
    dispatched, \* history: the Events whose dispatch has finished
    elog        \* the error lines log_result wrote in the event task, each with
                \* the number of Events dispatched by then

evVars == <<queue, published, inflight, dispatched, elog>>

VARIABLES
    signals,    \* PrepareForSleep signals received and not yet read by the stream
    sigsent,    \* number of PrepareForSleep signals logind has emitted
    standbys,   \* number of Standby commands the proxy has handled
    sleep_lock, \* Backend.sleep_lock: RefCell<Option<OwnedFd>>
    fds,        \* the inhibitor locks (file descriptors) the process holds
    inhibits,   \* number of inhibitor locks logind has granted
    lpc,        \* position of the sleep/resume stream's generator
    newfd,      \* the OwnedFd an Inhibit call returned, not yet stored
    lhist,      \* history: per signal read, the lock state and what was yielded
    phist       \* history: per Proxy::event call, the Event, the number of signals
                \* read by then and the state of its Manager.Suspend call

logindVars == <<signals, sigsent, standbys, sleep_lock, fds, inhibits, lpc, newfd, lhist,
                phist>>

VARIABLES
    owner_changed, \* NameOwnerChanged signals received and not yet read
    ownersent,     \* number of NameOwnerChanged signals received
    inner,         \* Players.inner: per bus name "absent", "pending" or "ready"
    resolution,    \* per name: what polling its Player::new future gives
    cached,        \* per name: what cached_playback_status() returns
    notif,         \* per name: playback_status_changed has an item ready
    changes,       \* number of playback-status changes so far
    deck_info,     \* Players.deck_info: the stored aggregate
    plock,         \* who holds Backend.players (the AsyncMutex)
    mpc,           \* position inside Stream::poll_next
    has_updates,   \* the local flag of poll_next_unpin_inner
    todo,          \* the entries `for future in self.inner.values_mut()` has left
    cursor,        \* the entry whose inner `loop` is running
    emitted,       \* history: the items the media stream yielded
    parked         \* what the lock did to the stream's wake-ups: "no" (nothing),
                   \* "late" (a notification arrived while a dispatch held the
                   \* lock), "blocked"/"missed" (the stream was polled while
                   \* the lock was held, returned Pending and left no waker in
                   \* the lock; "missed": that poll was the one for a late
                   \* notification)

mprisVars == <<owner_changed, ownersent, inner, resolution, cached, notif, changes,
               deck_info, plock, mpc, has_updates, todo, cursor, emitted, parked>>

VARIABLES
    uevent,     \* the udev::Event the monitor socket has ready, if any
    usent,      \* number of events the kernel has sent on the monitor
    uyield      \* history: the items the hotplug stream yielded

udevVars == <<uevent, usent, uyield>>

VARIABLES
    wire,       \* the datagrams queued on the daemon's socket, oldest first, each
                \* with the MetaCommand its sender encoded ({}: none)
    dsent,      \* number of datagrams and socket errors so far
    ipc_out,    \* history: the items the IPC stream yielded
    ipc_open    \* the IPC stream has not returned None

ipcVars == <<wire, dsent, ipc_out, ipc_open>>

VARIABLES
    rpc,        \* position of MetaCommand::run: "idle", "start", "loop" or "done"
    rcmd,       \* the MetaCommand `run` is called on ({}: none)
    audio,      \* volume_set's `status`: the level audio_get_status returned
    left,       \* iterations the `for _ in 0..steps` loop has left
    going,      \* the loop that is running: "up" (volume_up) or "down" (volume_down)
    ups,        \* number of native volume_up calls made
    downs,      \* number of native volume_down calls made
    vret,       \* what the last native volume_up or volume_down call returned
    calls,      \* history: the other native calls made, with what each returned
    rresult     \* what run returned: "none" (not yet), "Ok" or "Err"

cmdVars == <<rpc, rcmd, audio, left, going, ups, downs, vret, calls, rresult>>

VARIABLES
    clipc,      \* position of the client in send_or_run: "none" (no client),
                \* "send", "open", "run" or "exit"
    sendres,    \* what send(command) returned ("none": not yet)
    openres,    \* what the client's native open returned ("none": not called)
    exit_code,  \* the ExitCode of main (-1: it has not returned)
    clog        \* the lines the client wrote to standard error: "notice" or "error"

cliVars == <<clipc, sendres, openres, exit_code, clog>>

VARIABLES
    wl_in,      \* events the display server has sent that no dispatch has handled yet
    wl_n,       \* number of events the display server has sent
    seat,       \* State.seat: Option<WlSeat>, the global name it is bound to
    input_method_manager, \* State.input_method_manager: the global name it is bound to
    input_method, \* State.input_method: Option<GamescopeInputMethod>, with its seat
    serial,     \* State.serial
    srv_done,   \* the serial of the last `done` the server has sent (0: none yet)
    wpc,        \* "split" (Backend::split runs), "proxy" (the Proxy is idle),
                \* "flush" (Proxy::event awaits flush)
    wl_req,     \* history: the requests made on the connection, oldest first
    wl_flushed, \* how many of them have been written to the socket
    wl_keys,    \* number of Events handed to Proxy::event
    wl_res      \* what the last Proxy::event returned ("none": not yet)

wlVars == <<wl_in, wl_n, seat, input_method_manager, input_method, serial, srv_done, wpc,
            wl_req, wl_flushed, wl_keys, wl_res>>

VARIABLES
    devent,     \* the Event whose dispatch is in progress ("none": no dispatch)
    fut,        \* per future of the dispatch: "none" (not made), "new" (made, never
                \* polled), "pending", "ok", "err", "dropped" (dropped while
                \* pending) or "unpolled" (dropped without ever being polled)
    pdone,      \* per player: how many of its calls have completed in this dispatch
    dorder,     \* the order in which this dispatch iterates over the player table
    dres,       \* what the dispatch returned to log_result ("none": not yet)
    dn          \* number of dispatches started

dispVars == <<devent, fut, pdone, dorder, dres, dn>>

\* The proxies the event task dispatches to.
proxyVars == <<wlVars, dispVars>>

\* The components other than the four of the daemon's core.
edgeVars == <<udevVars, ipcVars, cmdVars, cliVars, proxyVars>>

coreVars == <<orchVars, evVars, logindVars, mprisVars>>

vars == <<coreVars, edgeVars>>

\* What an action of one component leaves alone in the other components.
orchOthers == <<evVars, logindVars, mprisVars, edgeVars>>
evOthers == <<orchVars, logindVars, mprisVars, edgeVars>>
logindOthers == <<orchVars, evVars, mprisVars, edgeVars>>
mprisOthers == <<orchVars, evVars, logindVars, edgeVars>>
udevOthers == <<coreVars, ipcVars, cmdVars, cliVars, proxyVars>>
ipcOthers == <<coreVars, udevVars, cmdVars, cliVars, proxyVars>>
cmdOthers == <<coreVars, udevVars, ipcVars, cliVars, proxyVars>>
wlOthers == <<coreVars, udevVars, ipcVars, cmdVars, cliVars, dispVars>>
dispOthers == <<orchVars, evVars, logindVars, udevVars, ipcVars, cmdVars, cliVars, wlVars>>

----------------------------------------------------------------------------
\* Request task of serve(): src/src/main.rs:114-166

Backends == {"unix", "udev", "dbus"}

Ports == {"ttyACM0"}

\* CecConnectionError
FatalErrors == {"LibInitFailed", "CallbackRegistrationFailed"}
RecoverableErrors == {"NoAdapterFound", "AdapterOpenFailed", "TransmitFailed"}
OpenOutcomes == {"Ok"} \cup FatalErrors \cup RecoverableErrors

\* The items each backend's stream yields (Result<Request, Error>).
Item(k, p) == [kind |-> k, port |-> p]
StreamItems(b) ==
    CASE b = "unix" -> {Item("Meta", "none"), Item("Err", "none")}
      [] b = "udev" -> {Item("Reset", p) : p \in Ports} \cup {Item("Remove", p) : p \in Ports}
      [] b = "dbus" -> {Item("Reset", "none"), Item("Meta", "none"), Item("Err", "none")}

StartItem == [from |-> "startup", kind |-> "Start", port |-> "none"]
Tagged(b, item) == [from |-> b, kind |-> item.kind, port |-> item.port]

IsFatalBroken(outcome) == outcome \in FatalErrors \cup {"NoAdapterFound"}
\* cec_build: which open errors are returned to the caller (and end serve)
IsFatal(outcome) == outcome \in FatalErrors

BuiltValueBroken(outcome, id) == {id}
\* cec_build: the Option it returns when it does not return Err
BuiltValue(outcome, id) == IF outcome = "Ok" THEN {id} ELSE {}

DropOldBroken(handle, open) == open
\* `cec = None`: the last Arc of the old connection is dropped, which closes it
DropOld(handle, open) == open \ handle

LogResultBroken(item) == {}
\* log_result: Some(request) for an Ok item, None (after logging) for an Err item
LogResult(item) == IF item.kind = "Err" THEN {} ELSE {item}

SelectableBroken(b) ==
    /\ inbox[b] # <<>>
    /\ \A o \in Backends : (o = "unix" /\ b # "unix") => inbox[o] = <<>>
\* stream_select!: any stream that has an item ready may be the one that yields
Selectable(b) == inbox[b] # <<>>

Running == pc \notin {"exit_err", "exit_ok"}

HasConnectionBroken(handle) == TRUE
\* `if let Some(cec) = &cec`: a MetaCommand runs only against an open connection
HasConnection(handle) == handle # {}

AfterRunBroken(ok) == IF ok THEN "recv" ELSE "exit_err"
\* `log_result(command.run(..).await);`: the result is logged, not returned,
\* and the loop goes on to the next stream.next()
AfterRun(ok) == "recv"

\* A backend stream has one more item ready.
Arrive(b, item, bound) ==
    /\ Running
    /\ arrivals < bound
    /\ arrivals' = arrivals + 1
    /\ inbox' = [inbox EXCEPT ![b] = Append(@, item)]
    /\ produced' = [produced EXCEPT ![b] = @ \o (IF item.kind = "Err" THEN <<>> ELSE <<item>>)]
    /\ UNCHANGED <<pc, cec, sessions, built, cfgPort, attempts, lastOpen, cur, applied,
                   opened, rlog>>
    /\ UNCHANGED orchOthers

\* cec_build(config): the blocking native open call and the match on its result.
NativeOpen(outcome) ==
    /\ pc = "open"
    /\ attempts' = attempts + 1
    /\ lastOpen' = [port |-> cfgPort, outcome |-> outcome, before |-> sessions]
    /\ IF IsFatal(outcome)
         THEN \* `?`: serve returns the error, its locals are dropped
              /\ pc' = "exit_err"
              /\ built' = {}
              /\ sessions' = DropOld(cec, sessions)
              /\ cec' = {}
         ELSE /\ pc' = "assign"
              /\ built' = BuiltValue(outcome, attempts + 1)
              /\ sessions' = IF outcome = "Ok" THEN sessions \cup {attempts + 1} ELSE sessions
              /\ cec' = cec
    /\ opened' = IF outcome = "Ok" THEN opened \cup {attempts + 1} ELSE opened
    /\ UNCHANGED <<cfgPort, cur, inbox, produced, applied, arrivals, rlog>>
    /\ UNCHANGED orchOthers

\* `cec = cec_build(config)?` / `let mut cec = cec_build(..)?`: the assignment,
\* which drops the value `cec` held before.
Assign ==
    /\ pc = "assign"
    /\ cec' = built
    /\ sessions' = DropOld(cec \ built, sessions)
    /\ built' = {}
    /\ pc' = "recv"
    /\ applied' = IF cur.kind = "Reset" THEN Append(applied, cur) ELSE applied
    /\ UNCHANGED <<cfgPort, attempts, lastOpen, cur, inbox, produced, arrivals, opened,
                   rlog>>
    /\ UNCHANGED orchOthers

AtNextBroken(at) == at \in {"recv", "run"}
\* The request loop is at `stream.next().await`: the handler of the previous
\* item, `command.run(..).await` included, has returned.
AtNext(at) == at = "recv"

\* One turn of `while let Some(action) = stream.next().await`, up to the first
\* point where the handler waits on the native library.
Take(b) ==
    /\ AtNext(pc)
    /\ Selectable(b)
    /\ inbox' = [inbox EXCEPT ![b] = Tail(@)]
    /\ LET item == Head(inbox[b])
           req == Tagged(b, item)
       IN  IF LogResult(item) = {}
             THEN /\ rlog' = Append(rlog, Len(applied))
                  /\ UNCHANGED <<pc, cec, sessions, cfgPort, cur, applied>>
             ELSE /\ UNCHANGED rlog
                  /\ CASE item.kind = "Reset" ->
                         /\ cec' = {}
                         /\ sessions' = DropOld(cec, sessions)
                         /\ cfgPort' = item.port
                         /\ cur' = req
                         /\ pc' = "open"
                         /\ UNCHANGED applied
                    [] item.kind = "Remove" ->
                         /\ cec' = {}
                         /\ sessions' = DropOld(cec, sessions)
                         /\ applied' = Append(applied, req)
                         /\ UNCHANGED <<pc, cfgPort, cur>>
                    [] item.kind = "Meta" ->
                         IF HasConnection(cec)
                           THEN /\ pc' = "run"
                                /\ cur' = req
                                /\ UNCHANGED <<cec, sessions, cfgPort, applied>>
                           ELSE /\ applied' = Append(applied, req)
                                /\ UNCHANGED <<pc, cec, sessions, cfgPort, cur>>
    /\ UNCHANGED <<built, attempts, lastOpen, produced, arrivals, opened>>
    /\ UNCHANGED orchOthers

\* `log_result(command.run(cec.clone()).await)`: the command finishes, Ok or Err.
RunDone(ok) ==
    /\ pc = "run"
    /\ pc' = AfterRun(ok)
    /\ applied' = Append(applied, cur)
    /\ rlog' = IF ok THEN rlog ELSE Append(rlog, Len(applied) + 1)
    /\ UNCHANGED <<cec, sessions, built, cfgPort, attempts, lastOpen, cur, inbox,
                   produced, arrivals, opened>>
    /\ UNCHANGED orchOthers

----------------------------------------------------------------------------
\* Event channel and event task of serve(): src/src/main.rs:67, 87-112, 203-217

EventKinds == {"KeyPress", "Standby", "LogMessage"}

TrySendBroken(q, e) == IF Len(q) >= 1 THEN q ELSE Append(q, e)
\* Sender::try_send on the channel made by async_channel::unbounded()
TrySend(q, e) == Append(q, e)

CanRecvBroken == TRUE
\* `while let Ok(event) = rx.recv().await { ...; log_result(try_join!(..)) }`:
\* the next recv is reached only when the dispatch of the previous Event is over
CanRecv == inflight = <<>>

ExecutorFreeBroken == pc = "recv"

\* The LocalExecutor polls the event task only while the request task is
\* suspended at an await (stream.next() or command.run()); cec_build blocks it.
ExecutorFree == pc \in {"recv", "run"}

\* A libcec callback publishes an Event (key press, command or log message).
Publish(kind) ==
    /\ Running
    /\ sessions # {} \/ pc = "open"
    /\ Len(published) < MaxEvents
    /\ LET e == [id |-> Len(published) + 1, kind |-> kind]
       IN  /\ published' = Append(published, e)
           /\ queue' = TrySend(queue, e)
    /\ UNCHANGED <<inflight, dispatched, elog>>
    /\ UNCHANGED evOthers

\* rx.recv() returns the oldest Event and its dispatch to the proxies starts.
EventRecv ==
    /\ Running
    /\ ExecutorFree
    /\ CanRecv
    /\ queue # <<>>
    /\ inflight' = Append(inflight, Head(queue))
    /\ queue' = Tail(queue)
    /\ UNCHANGED <<published, dispatched, elog>>
    /\ UNCHANGED evOthers

\* try_join!(dbus_proxy.event(..), wayland_proxy.event(..)) finishes, Ok or Err,
\* and log_result logs an Err.
EventDone(ok) ==
    /\ Running
    /\ ExecutorFree
    /\ inflight # <<>>
    /\ dispatched' = Append(dispatched, Head(inflight))
    /\ inflight' = Tail(inflight)
    /\ elog' = IF ok THEN elog ELSE Append(elog, Len(dispatched) + 1)
    /\ UNCHANGED <<queue, published>>
    /\ UNCHANGED evOthers

EvStep ==
    \/ \E kind \in EventKinds : Publish(kind)
    \/ EventRecv
    \/ \E ok \in BOOLEAN : EventDone(ok)

----------------------------------------------------------------------------
\* Sleep/resume backend: src/src/backend/dbus/systemd_logind/mod.rs

PowerOffCooperative == [kind |-> "MetaCommand", command |-> "Power::Off", cooperative |-> TRUE]
ResetDeviceNone == [kind |-> "ResetDevice", port |-> "none"]
StreamError == [kind |-> "Err"]

HeldAtSleepStartBroken(lock) == TRUE
\* `if self.backend.sleep_lock.borrow().is_some()`
HeldAtSleepStart(lock) == lock # {}

OnSleepEndBroken == <<>>
\* the sleep-end branch: `yield Request::ResetDevice(None)`
OnSleepEnd == <<ResetDeviceNone>>

\* logind emits PrepareForSleep(true) before each sleep and PrepareForSleep(false)
\* after each resume, in turn.
SignalArrive ==
    /\ sigsent < MaxSignals
    /\ sigsent' = sigsent + 1
    /\ signals' = Append(signals, sigsent % 2 = 0)
    /\ UNCHANGED <<standbys, sleep_lock, fds, inhibits, lpc, newfd, lhist, phist>>
    /\ UNCHANGED logindOthers

\* The event task calls Proxy::event for one Event at a time.
ProxyFree == IF phist = <<>> THEN TRUE ELSE phist[Len(phist)].suspend # "pending"

\* Proxy::event on Event::Command with opcode Standby: the lock is dropped,
\* then logind is asked to suspend and the call is awaited.
ProxyStandby ==
    /\ ProxyFree
    /\ standbys < MaxStandby
    /\ standbys' = standbys + 1
    /\ sleep_lock' = {}
    /\ fds' = fds \ sleep_lock
    /\ phist' = Append(phist, [event |-> "Standby", read |-> Len(lhist),
                               suspend |-> "pending"])
    /\ UNCHANGED <<signals, sigsent, inhibits, lpc, newfd, lhist>>
    /\ UNCHANGED logindOthers

\* `self.backend.manager.suspend(false).await?`: logind's reply
SuspendReply(ok) ==
    /\ ~ProxyFree
    /\ phist' = [phist EXCEPT ![Len(phist)].suspend = IF ok THEN "ok" ELSE "err"]
    /\ UNCHANGED <<signals, sigsent, standbys, sleep_lock, fds, inhibits, lpc, newfd,
                   lhist>>
    /\ UNCHANGED logindOthers

\* Proxy::event on any other Event (`_ => ()`): a command with another
\* opcode, a key press, a log message.
ProxyIgnores(event) ==
    /\ ProxyFree
    /\ Len(phist) < MaxStandby
    /\ phist' = Append(phist, [event |-> event, read |-> Len(lhist), suspend |-> "none"])
    /\ UNCHANGED <<signals, sigsent, standbys, sleep_lock, fds, inhibits, lpc, newfd,
                   lhist>>
    /\ UNCHANGED logindOthers

\* One turn of `while let Some(event) = self.prepare_for_sleep.next().await`,
\* up to its yield.
StreamSignal ==
    /\ lpc = "next"
    /\ signals # <<>>
    /\ signals' = Tail(signals)
    /\ LET start == Head(signals)
           held == sleep_lock # {}
           out == IF start
                    THEN IF HeldAtSleepStart(sleep_lock) THEN <<PowerOffCooperative>> ELSE <<>>
                    ELSE OnSleepEnd
       IN  /\ lhist' = Append(lhist, [start |-> start, held |-> held, yielded |-> out,
                                      done |-> start, after |-> held])
           /\ lpc' = IF start THEN "next" ELSE "resumed"
    /\ UNCHANGED <<sigsent, standbys, sleep_lock, fds, inhibits, newfd, phist>>
    /\ UNCHANGED logindOthers

\* After the yield of ResetDevice(None) the stream is polled again and calls
\* Backend::sleep_lock (logind's Inhibit); the call returns the new lock or fails.
\* A failure is yielded as the stream's error, after which try_stream! ends it.
InhibitReply(ok) ==
    /\ lpc = "resumed"
    /\ IF ok
         THEN /\ inhibits' = inhibits + 1
              /\ newfd' = {inhibits + 1}
              /\ fds' = fds \cup {inhibits + 1}
              /\ lpc' = "store"
              /\ UNCHANGED lhist
         ELSE /\ lpc' = "ended"
              /\ lhist' = [lhist EXCEPT ![Len(lhist)] =
                              [@ EXCEPT !.yielded = Append(@, StreamError),
                                        !.done = TRUE,
                                        !.after = sleep_lock # {}]]
              /\ UNCHANGED <<inhibits, newfd, fds>>
    /\ UNCHANGED <<signals, sigsent, standbys, sleep_lock, phist>>
    /\ UNCHANGED logindOthers

\* `self.backend.sleep_lock.replace(Some(..))`: the new lock is stored and the
\* value the cell held is dropped.
StoreLock ==
    /\ lpc = "store"
    /\ sleep_lock' = newfd
    /\ fds' = fds \ sleep_lock
    /\ newfd' = {}
    /\ lpc' = "next"
    /\ lhist' = [lhist EXCEPT ![Len(lhist)] =
                    [@ EXCEPT !.done = TRUE, !.after = sleep_lock' # {}]]
    /\ UNCHANGED <<signals, sigsent, standbys, inhibits, phist>>
    /\ UNCHANGED logindOthers

\* Backend::new has acquired the first lock.
LogindInit ==
    /\ signals = <<>>
    /\ sigsent = 0
    /\ standbys = 0
    /\ sleep_lock = {1}
    /\ fds = {1}
    /\ inhibits = 1
    /\ lpc = "next"
    /\ newfd = {}
    /\ lhist = <<>>
    /\ phist = <<>>

LogindStep ==
    \/ SignalArrive
    \/ ProxyStandby
    \/ \E ok \in BOOLEAN : SuspendReply(ok)
    \/ \E event \in {"ImageViewOn", "KeyPress", "LogMessage"} : ProxyIgnores(event)
    \/ StreamSignal
    \/ \E ok \in BOOLEAN : InhibitReply(ok)
    \/ StoreLock

----------------------------------------------------------------------------
\* Media aggregation backend: src/src/backend/dbus/mpris/mod.rs

\* Bus names under org.mpris.MediaPlayer2.
Names == {"mpv", "vlc"}

\* cached_playback_status(): Ok(Some(string)), Ok(None) ("None") or Err ("Err")
Statuses == {"Playing", "Paused", "Stopped", "Other", "None", "Err"}

\* enum DeckInfo { Play, Still, Stop } with derive(PartialOrd, Ord): the order
\* of the variants is the order of their declaration.
DeckOrder == <<"Play", "Still", "Stop">>
DeckRank(d) == CHOOSE i \in 1..Len(DeckOrder) : DeckOrder[i] = d

\* impl Default for DeckInfo
DeckDefault == "Stop"

MinDeckBroken(a, b) == IF DeckRank(a) <= DeckRank(b) THEN b ELSE a
\* std::cmp::min on DeckInfo
MinDeck(a, b) == IF DeckRank(a) <= DeckRank(b) THEN a ELSE b

DeckOfBroken(status) ==
    CASE status = "Playing" -> "Play"
      [] status = "Paused" -> "Stop"
      [] status = "Stopped" -> "Still"
      [] OTHER -> "Stop"
\* the match on cached_playback_status() in poll_next_unpin_inner
DeckOf(status) ==
    CASE status = "Playing" -> "Play"
      [] status = "Paused" -> "Still"
      [] status = "Stopped" -> "Stop"
      [] OTHER -> "Stop"

DeckChangedBroken(stored, deck) == TRUE
\* `if self.deck_info != deck_info`: the test that guards the store and the yield
DeckChanged(stored, deck) == stored # deck

\* Players::iter: the entries that are PlayerFuture::Ready
IterPlayers(table) == {n \in Names : table[n] = "ready"}

\* `.map(..).fold(DeckInfo::Stop, |acc, status| min(acc, status))` over the
\* players of `names`
RECURSIVE FoldDeck(_, _, _)
FoldDeck(names, status, acc) ==
    IF names = {} THEN acc
    ELSE LET n == CHOOSE x \in names : TRUE
         IN  FoldDeck(names \ {n}, status, MinDeck(acc, DeckOf(status[n])))

AggregateDeck(table, status) == FoldDeck(IterPlayers(table), status, "Stop")

\* A notification wakes the request task; `lock` is who holds the table then.
Notified(lock) == IF lock = "proxy" THEN "late" ELSE "no"

\* The session bus reports that a media-player name got or lost its owner.
OwnerChanged(n, new_owner) ==
    /\ ownersent < MaxOwnerSignals
    /\ ownersent' = ownersent + 1
    /\ owner_changed' = Append(owner_changed, [name |-> n, new_owner |-> new_owner])
    /\ UNCHANGED <<inner, resolution, cached, notif, changes, deck_info, plock, mpc,
                   has_updates, todo, cursor, emitted>>
    /\ parked' = Notified(plock)
    /\ UNCHANGED mprisOthers

\* The Player::new future of a pending entry can complete, with a Player or an error.
ResolutionCompletes(n, ok) ==
    /\ inner[n] = "pending"
    /\ resolution[n] = "wait"
    /\ resolution' = [resolution EXCEPT ![n] = IF ok THEN "ok" ELSE "err"]
    /\ UNCHANGED <<owner_changed, ownersent, inner, cached, notif, changes, deck_info,
                   plock, mpc, has_updates, todo, cursor, emitted>>
    /\ parked' = Notified(plock)
    /\ UNCHANGED mprisOthers

\* A player's PlaybackStatus property changes: the proxy's cache is updated and,
\* for a resolved player, the property stream has an item.
StatusChange(n, status) ==
    /\ changes < MaxStatusChanges
    /\ inner[n] # "absent"
    /\ cached[n] # status
    /\ changes' = changes + 1
    /\ cached' = [cached EXCEPT ![n] = status]
    /\ notif' = [notif EXCEPT ![n] = @ \/ inner[n] = "ready"]
    /\ UNCHANGED <<owner_changed, ownersent, inner, resolution, deck_info, plock, mpc,
                   has_updates, todo, cursor, emitted>>
    /\ parked' = Notified(plock)
    /\ UNCHANGED mprisOthers

\* Stream::poll_next: the lock is taken and poll_next_unpin_inner starts.
PollStart ==
    /\ mpc = "idle"
    /\ plock = "free"
    /\ plock' = "stream"
    /\ mpc' = "drain"
    /\ has_updates' = FALSE
    /\ UNCHANGED <<owner_changed, ownersent, inner, resolution, cached, notif, changes,
                   deck_info, todo, cursor, emitted>>
    /\ parked' = "no"
    /\ UNCHANGED mprisOthers

\* One turn of the first loop: a NameOwnerChanged signal is read.
DrainSignal ==
    /\ mpc = "drain"
    /\ owner_changed # <<>>
    /\ owner_changed' = Tail(owner_changed)
    /\ LET sig == Head(owner_changed)
       IN  IF sig.new_owner
             THEN /\ inner' = [inner EXCEPT ![sig.name] = "pending"]
                  /\ resolution' = [resolution EXCEPT ![sig.name] = "wait"]
                  /\ notif' = [notif EXCEPT ![sig.name] = FALSE]
                  /\ UNCHANGED has_updates
             ELSE /\ inner' = [inner EXCEPT ![sig.name] = "absent"]
                  /\ resolution' = [resolution EXCEPT ![sig.name] = "wait"]
                  /\ notif' = [notif EXCEPT ![sig.name] = FALSE]
                  /\ has_updates' = TRUE
    /\ UNCHANGED <<ownersent, cached, changes, deck_info, plock, mpc, todo, cursor, emitted>>
    /\ UNCHANGED parked
    /\ UNCHANGED mprisOthers

\* The first loop ends (`Poll::Pending => break`) and the iteration over the
\* table starts.
DrainEnd ==
    /\ mpc = "drain"
    /\ owner_changed = <<>>
    /\ mpc' = "iter"
    /\ todo' = {n \in Names : inner[n] # "absent"}
    /\ cursor' = {}
    /\ UNCHANGED <<owner_changed, ownersent, inner, resolution, cached, notif, changes,
                   deck_info, plock, has_updates, emitted>>
    /\ UNCHANGED parked
    /\ UNCHANGED mprisOthers

\* `for future in self.inner.values_mut()`: the next entry, in the map's order.
\* The inner `loop` leaves an entry only by `break` (a resolved player whose
\* property stream is Pending) or by `?`: a pending entry whose future is not
\* complete is polled again and again, until ResolutionCompletes.
NextPlayer(n) ==
    /\ mpc = "iter"
    /\ cursor = {}
    /\ n \in todo
    /\ cursor' = {n}
    /\ todo' = todo \ {n}
    /\ UNCHANGED <<owner_changed, ownersent, inner, resolution, cached, notif, changes,
                   deck_info, plock, mpc, has_updates, emitted>>
    /\ UNCHANGED parked
    /\ UNCHANGED mprisOthers

\* poll_as_mut_unpin on a pending entry whose future is not complete returns
\* Poll::Pending: the `if let Poll::Ready(..)` does not match and the inner
\* `loop`, which has no other exit, polls the entry again.
PlayerPending(n) ==
    /\ mpc = "iter"
    /\ cursor = {n}
    /\ inner[n] = "pending"
    /\ resolution[n] = "wait"
    /\ mpc' = "spin"
    /\ UNCHANGED <<owner_changed, ownersent, inner, resolution, cached, notif, changes,
                   deck_info, plock, has_updates, todo, cursor, emitted>>
    /\ UNCHANGED parked
    /\ UNCHANGED mprisOthers

\* poll_as_mut_unpin on a pending entry whose future completes with a Player.
PlayerResolved(n) ==
    /\ mpc \in {"iter", "spin"}
    /\ cursor = {n}
    /\ inner[n] = "pending"
    /\ resolution[n] = "ok"
    /\ inner' = [inner EXCEPT ![n] = "ready"]
    /\ resolution' = [resolution EXCEPT ![n] = "taken"]
    /\ mpc' = "iter"
    /\ UNCHANGED <<owner_changed, ownersent, cached, notif, changes, deck_info, plock,
                   has_updates, todo, cursor, emitted>>
    /\ UNCHANGED parked
    /\ UNCHANGED mprisOthers

\* poll_as_mut_unpin on a pending entry whose future completes with an error:
\* `?` returns it as the stream's item; the entry stays PlayerFuture::Pending.
PlayerFailed(n) ==
    /\ mpc \in {"iter", "spin"}
    /\ cursor = {n}
    /\ inner[n] = "pending"
    /\ resolution[n] = "err"
    /\ resolution' = [resolution EXCEPT ![n] = "taken"]
    /\ emitted' = Append(emitted, "Err")
    /\ mpc' = "idle"
    /\ plock' = "free"
    /\ cursor' = {}
    /\ todo' = {}
    /\ UNCHANGED <<owner_changed, ownersent, inner, cached, notif, changes, deck_info,
                   has_updates>>
    /\ UNCHANGED parked
    /\ UNCHANGED mprisOthers

\* poll_as_mut_unpin on an entry that PlayerFailed left behind: it is still
\* PlayerFuture::Pending and holds the future that has already returned its
\* error. Player::new is `build().and_then(..)`, and an AndThen that has
\* completed panics when it is polled again; the panic unwinds out of serve.
PlayerRepolled(n) ==
    /\ mpc = "iter"
    /\ cursor = {n}
    /\ inner[n] = "pending"
    /\ resolution[n] = "taken"
    /\ mpc' = "panicked"
    /\ plock' = "free"
    /\ cursor' = {}
    /\ todo' = {}
    /\ UNCHANGED <<owner_changed, ownersent, inner, resolution, cached, notif, changes,
                   deck_info, has_updates, emitted>>
    /\ UNCHANGED parked
    /\ UNCHANGED mprisOthers

\* playback_status_changed.poll_next_unpin gives Ready(Some(_)).
StatusRead(n) ==
    /\ mpc = "iter"
    /\ cursor = {n}
    /\ inner[n] = "ready"
    /\ notif[n]
    /\ notif' = [notif EXCEPT ![n] = FALSE]
    /\ has_updates' = TRUE
    /\ UNCHANGED <<owner_changed, ownersent, inner, resolution, cached, changes,
                   deck_info, plock, mpc, todo, cursor, emitted>>
    /\ UNCHANGED parked
    /\ UNCHANGED mprisOthers

\* playback_status_changed.poll_next_unpin gives Pending: `break`.
PlayerDone(n) ==
    /\ mpc = "iter"
    /\ cursor = {n}
    /\ inner[n] = "ready"
    /\ ~notif[n]
    /\ cursor' = {}
    /\ UNCHANGED <<owner_changed, ownersent, inner, resolution, cached, notif, changes,
                   deck_info, plock, mpc, has_updates, todo, emitted>>
    /\ UNCHANGED parked
    /\ UNCHANGED mprisOthers

\* `if has_updates { .. }` and the return of the poll: the aggregate is
\* recomputed and yielded when it differs from the stored one.
Recompute ==
    /\ mpc = "iter"
    /\ cursor = {}
    /\ todo = {}
    /\ mpc' = "idle"
    /\ plock' = "free"
    /\ IF has_updates
         THEN LET deck == AggregateDeck(inner, cached)
              IN  IF DeckChanged(deck_info, deck)
                    THEN /\ deck_info' = deck
                         /\ emitted' = Append(emitted, deck)
                    ELSE UNCHANGED <<deck_info, emitted>>
         ELSE UNCHANGED <<deck_info, emitted>>
    /\ UNCHANGED <<owner_changed, ownersent, inner, resolution, cached, notif, changes,
                   has_updates, todo, cursor>>
    /\ UNCHANGED parked
    /\ UNCHANGED mprisOthers

\* Players::new: the names list_names reported are pending entries.
MprisInit ==
    /\ owner_changed = <<>>
    /\ ownersent = 0
    /\ inner \in [Names -> {"absent", "pending"}]
    /\ resolution = [n \in Names |-> "wait"]
    /\ cached = [n \in Names |-> "Stopped"]
    /\ notif = [n \in Names |-> FALSE]
    /\ changes = 0
    /\ deck_info = DeckDefault
    /\ plock = "free"
    /\ mpc = "idle"
    /\ has_updates = FALSE
    /\ todo = {}
    /\ cursor = {}
    /\ emitted = <<>>
    /\ parked = "no"

\* The media backend with no player.
MprisIdle ==
    /\ owner_changed = <<>>
    /\ ownersent = 0
    /\ inner = [n \in Names |-> "absent"]
    /\ resolution = [n \in Names |-> "wait"]
    /\ cached = [n \in Names |-> "Stopped"]
    /\ notif = [n \in Names |-> FALSE]
    /\ changes = 0
    /\ deck_info = DeckDefault
    /\ plock = "free"
    /\ mpc = "idle"
    /\ has_updates = FALSE
    /\ todo = {}
    /\ cursor = {}
    /\ emitted = <<>>
    /\ parked = "no"

MprisStep ==
    \/ \E n \in Names : \E new_owner \in BOOLEAN : OwnerChanged(n, new_owner)
    \/ \E n \in Names : \E ok \in BOOLEAN : ResolutionCompletes(n, ok)
    \/ \E n \in Names : \E status \in Statuses : StatusChange(n, status)
    \/ PollStart
    \/ DrainSignal
    \/ DrainEnd
    \/ \E n \in Names : NextPlayer(n)
    \/ \E n \in Names : PlayerPending(n)
    \/ \E n \in Names : PlayerResolved(n)
    \/ \E n \in Names : PlayerFailed(n)
    \/ \E n \in Names : PlayerRepolled(n)
    \/ \E n \in Names : StatusRead(n)
    \/ \E n \in Names : PlayerDone(n)
    \/ Recompute

----------------------------------------------------------------------------
\* Hotplug backend: src/src/backend/udev.rs

\* Backend::CEC_VID, CEC_PID, CEC_PID2 (0x2548, 0x1001, 0x1002)
CEC_VID == 9544
CEC_PID == 4097
CEC_PID2 == 4098

\* The largest u16.
U16Max == 65535

\* char::to_digit(16), -1 for a character that is no hexadecimal digit.
\* A string is the sequence of its characters.
ToDigit(c) ==
    LET LowerDigits == <<"0", "1", "2", "3", "4", "5", "6", "7", "8", "9",
                         "a", "b", "c", "d", "e", "f">>
        UpperDigits == <<"0", "1", "2", "3", "4", "5", "6", "7", "8", "9",
                         "A", "B", "C", "D", "E", "F">>
    IN  IF \E i \in 1..16 : LowerDigits[i] = c
          THEN (CHOOSE i \in 1..16 : LowerDigits[i] = c) - 1
        ELSE IF \E i \in 1..16 : UpperDigits[i] = c
          THEN (CHOOSE i \in 1..16 : UpperDigits[i] = c) - 1
        ELSE -1

\* The digit loop of u16::from_str_radix(_, 16): -1 on a character that is
\* no digit and on a value that does not fit 16 bits.
RECURSIVE AccumulateHexBroken(_, _)
AccumulateHexBroken(str, acc) ==
    IF str = <<>> THEN acc
    ELSE IF ToDigit(Head(str)) < 0 THEN -1
    ELSE AccumulateHexBroken(Tail(str), (acc * 16 + ToDigit(Head(str))) % (U16Max + 1))

RECURSIVE AccumulateHex(_, _)
AccumulateHex(str, acc) ==
    IF str = <<>> THEN acc
    ELSE IF ToDigit(Head(str)) < 0 THEN -1
    ELSE IF acc * 16 + ToDigit(Head(str)) > U16Max THEN -1
    ELSE AccumulateHex(Tail(str), acc * 16 + ToDigit(Head(str)))

\* u16::from_str_radix(id, 16).ok(): the empty string and a lone sign are
\* errors, one leading "+" is accepted.
FromStrRadix16(str) ==
    LET digits == IF str # <<>> /\ Head(str) = "+" THEN Tail(str) ELSE str
        value == AccumulateHex(digits, 0)
    IN  IF digits = <<>> \/ value < 0 THEN {} ELSE {value}

\* Backend::parse_id on an Option of an attribute value
parse_id(id) == UNION {FromStrRadix16(str) : str \in id}

IsCecProductBroken(product) == product = {CEC_PID}
\* the pattern `Some(Backend::CEC_PID | Backend::CEC_PID2)`
IsCecProduct(product) == product = {CEC_PID} \/ product = {CEC_PID2}

\* The events of the "tty" subsystem the monitor delivers: their
\* udev::EventType, their device node, and what
\* parent_with_subsystem_devtype("usb", "usb_device") gives: a device with its
\* idVendor and idProduct attribute values (None: {}), None or an io::Error.
UdevEvents ==
    LET EventTypes == {"Add", "Remove", "Change", "Bind"}
        DevNodes == {"/dev/ttyACM0", "/dev/ttyACM1"}
        VendorAttrs == {{}, {<<"2", "5", "4", "8">>}, {<<"1", "2", "5", "4", "8">>},
                        {<<"1", "d", "6", "b">>}}
        ProductAttrs == {{}, {<<"1", "0", "0", "1">>}, {<<"1", "0", "0", "2">>},
                         {<<"1", "0", "0", "3">>}, {<<>>}}
    IN  {[type |-> t, devnode |-> d, parent |-> "usb_device",
          idVendor |-> v, idProduct |-> p] :
            t \in EventTypes, d \in DevNodes, v \in VendorAttrs, p \in ProductAttrs}
        \cup {[type |-> t, devnode |-> d, parent |-> q, idVendor |-> {}, idProduct |-> {}] :
            t \in EventTypes, d \in DevNodes, q \in {"none", "error"}}

\* map_event, with try_filter_map: the items one event adds to the stream
map_event(event) ==
    IF event.parent = "error" THEN <<Item("Err", "none")>>
    ELSE IF /\ event.parent = "usb_device"
            /\ parse_id(event.idVendor) = {CEC_VID}
            /\ IsCecProduct(parse_id(event.idProduct))
      THEN CASE event.type = "Add" -> <<Item("Reset", event.devnode)>>
             [] event.type = "Remove" -> <<Item("Remove", event.devnode)>>
             [] OTHER -> <<>>
    ELSE <<>>

\* The kernel sends an event on the monitor socket.
UdevArrive(event) ==
    /\ uevent = {}
    /\ usent < MaxUdevEvents
    /\ usent' = usent + 1
    /\ uevent' = {event}
    /\ UNCHANGED uyield
    /\ UNCHANGED udevOthers

\* AsyncMonitorSocket::poll_next gives the event and map_event is applied.
UdevNext ==
    /\ uevent # {}
    /\ uevent' = {}
    /\ uyield' = uyield \o map_event(CHOOSE event \in uevent : TRUE)
    /\ UNCHANGED usent
    /\ UNCHANGED udevOthers

\* poll_readable fails: `?` makes the error an item of the stream.
UdevSocketError ==
    /\ uevent = {}
    /\ usent < MaxUdevEvents
    /\ usent' = usent + 1
    /\ uyield' = Append(uyield, Item("Err", "none"))
    /\ UNCHANGED uevent
    /\ UNCHANGED udevOthers

\* Stream::into_stream, before any event
UdevInit ==
    /\ uevent = {}
    /\ usent = 0
    /\ uyield = <<>>

UdevStep ==
    \/ \E event \in UdevEvents : UdevArrive(event)
    \/ UdevNext
    \/ UdevSocketError

----------------------------------------------------------------------------
\* MetaCommand and its binary encoding: src/src/meta_command.rs:14-96,
\* src/src/main.rs:191-201, src/src/backend/unix_socket.rs:81-100

\* MetaCommand::POSTCARD_MAX_SIZE as derive(MaxSize) computes it: one byte of
\* discriminant plus the largest variant (a discriminant or an Option tag,
\* plus one byte of bool, u8 or discriminant).
POSTCARD_MAX_SIZE == 3

\* The variants of MetaCommand and of the enum each one holds, in the order
\* of their declaration (Mute holds an Option<Mute>).
Variants == <<"Active", "Power", "Volume", "Mute", "DeckInfo">>
Subs(variant) ==
    CASE variant = "Active" -> <<"Set", "Unset">>
      [] variant = "Power" -> <<"On", "Off">>
      [] variant = "Volume" -> <<"Up", "Down", "Set">>
      [] variant = "Mute" -> <<"Toggle", "On", "Off">>
      [] variant = "DeckInfo" -> DeckOrder

\* A MetaCommand value. `cooperative` is the field of Active::Set and
\* Power::Off, `n` the steps or volume of a Volume command (FALSE and 0 in
\* the values that have no such field); sub "None" is Mute { command: None }.
Cmd(variant, sub, cooperative, n) ==
    [variant |-> variant, sub |-> sub, cooperative |-> cooperative, n |-> n]

HasFlag(variant, sub) == <<variant, sub>> \in {<<"Active", "Set">>, <<"Power", "Off">>}

MetaCommands ==
    {Cmd("Active", "Set", c, 0) : c \in BOOLEAN}
    \cup {Cmd("Power", "Off", c, 0) : c \in BOOLEAN}
    \cup {Cmd("Active", "Unset", FALSE, 0), Cmd("Power", "On", FALSE, 0)}
    \cup {Cmd("Volume", k, FALSE, n) : k \in {"Up", "Down", "Set"}, n \in 0..255}
    \cup {Cmd("Mute", k, FALSE, 0) : k \in {"None", "Toggle", "On", "Off"}}
    \cup {Cmd("DeckInfo", d, FALSE, 0) : d \in {"Play", "Still", "Stop"}}

IndexOf(seq, x) == (CHOOSE i \in 1..Len(seq) : seq[i] = x) - 1

\* postcard's varint of a u32: seven bits a byte, low bits first, the high
\* bit set on every byte but the last.
RECURSIVE Varint(_)
Varint(n) == IF n < 128 THEN <<n>> ELSE <<(n % 128) + 128>> \o Varint(n \div 128)

EncodeBroken(cmd) ==
    Varint(IndexOf(Variants, cmd.variant))
    \o (IF cmd.variant = "Mute" THEN <<>> ELSE Varint(IndexOf(Subs(cmd.variant), cmd.sub)))
    \o (IF cmd.variant = "Volume" THEN <<cmd.n>> ELSE <<>>)
\* postcard::to_slice(&command, ..) through derive(Serialize): the variant
\* index as a varint, then the fields; a bool and a u8 are one byte, an
\* Option is a tag byte 0, or 1 followed by the value.
Encode(cmd) ==
    Varint(IndexOf(Variants, cmd.variant))
    \o (IF cmd.variant = "Mute"
          THEN IF cmd.sub = "None" THEN <<0>>
               ELSE <<1>> \o Varint(IndexOf(Subs("Mute"), cmd.sub))
          ELSE Varint(IndexOf(Subs(cmd.variant), cmd.sub)))
    \o (IF HasFlag(cmd.variant, cmd.sub) THEN <<IF cmd.cooperative THEN 1 ELSE 0>>
        ELSE IF cmd.variant = "Volume" THEN <<cmd.n>>
        ELSE <<>>)

\* postcard's try_take_varint_u32 at position `at` of `buf`: the value and
\* the position after it, the value -1 when the bytes end or five bytes did
\* not end the number.
RECURSIVE TakeVarint(_, _, _, _)
TakeVarint(buf, at, i, out) ==
    IF at > Len(buf) \/ i >= 5 THEN [val |-> -1, next |-> at]
    ELSE LET byte == buf[at]
             acc == out + (byte % 128) * (128 ^ i)
         IN  IF byte < 128
               THEN IF i = 4 /\ byte > 15 THEN [val |-> -1, next |-> at]
                    ELSE [val |-> acc, next |-> at + 1]
               ELSE TakeVarint(buf, at + 1, i + 1, acc)

\* The variant name a decoded index stands for, "" when it is out of range.
NameOf(seq, index) == IF index >= 0 /\ index < Len(seq) THEN seq[index + 1] ELSE ""

DecodeBroken(buf) ==
    LET variant == NameOf(Variants, TakeVarint(buf, 1, 0, 0).val)
        second == TakeVarint(buf, 2, 0, 0)
    IN  IF variant = "" \/ second.val < 0 THEN {}
        ELSE IF variant = "Mute" THEN {Cmd("Mute", "None", FALSE, 0)}
        ELSE IF NameOf(Subs(variant), second.val) = "" THEN {}
        ELSE {Cmd(variant, NameOf(Subs(variant), second.val), FALSE, 0)}
\* postcard::from_bytes::<MetaCommand>(buf) through derive(Deserialize):
\* {} for an Err (bytes that end early, an index that names no variant, a
\* bool or an Option tag that is neither 0 nor 1); bytes after the value are
\* not looked at.
Decode(buf) ==
    LET first == TakeVarint(buf, 1, 0, 0)
        variant == NameOf(Variants, first.val)
        \* the Option tag of Mute { command }
        tag == IF first.next <= Len(buf) THEN buf[first.next] ELSE -1
        second == TakeVarint(buf, IF variant = "Mute" THEN first.next + 1 ELSE first.next,
                             0, 0)
        sub == IF variant = "" THEN "" ELSE NameOf(Subs(variant), second.val)
        field == IF second.next <= Len(buf) THEN buf[second.next] ELSE -1
    IN  IF variant = "" THEN {}
        ELSE IF variant = "Mute" /\ tag = 0 THEN {Cmd("Mute", "None", FALSE, 0)}
        ELSE IF variant = "Mute" /\ tag # 1 THEN {}
        ELSE IF sub = "" THEN {}
        ELSE IF HasFlag(variant, sub)
          THEN IF field \in {0, 1} THEN {Cmd(variant, sub, field = 1, 0)} ELSE {}
        ELSE IF variant = "Volume"
          THEN IF field >= 0 THEN {Cmd(variant, sub, FALSE, field)} ELSE {}
        ELSE {Cmd(variant, sub, FALSE, 0)}

\* UnixDatagram::recv into `[0u8; POSTCARD_MAX_SIZE]`: the buffer afterwards.
\* The bytes of the datagram that do not fit are discarded; the bytes of the
\* buffer the datagram does not reach stay zero.
RecvInto(datagram) ==
    [i \in 1..POSTCARD_MAX_SIZE |-> IF i <= Len(datagram) THEN datagram[i] ELSE 0]

\* The items of the IPC stream: Ok(Request::MetaCommand(_)),
\* Err(Error::InvalidCommand(_)) and Err(Error::Io(_))
IpcItem(kind, cmd) == [kind |-> kind, cmd |-> cmd]

\* send(command): the encoded command is sent to the daemon's socket.
\* `to_slice(..).unwrap()` panics, and nothing is sent, when the encoding is
\* longer than the buffer.
CliSend(cmd, bound) ==
    /\ dsent < bound
    /\ dsent' = dsent + 1
    /\ wire' = IF Len(Encode(cmd)) <= POSTCARD_MAX_SIZE
                 THEN Append(wire, [bytes |-> Encode(cmd), cmd |-> {cmd}])
                 ELSE wire
    /\ UNCHANGED <<ipc_out, ipc_open>>
    /\ UNCHANGED ipcOthers

\* Another process sends a datagram to the daemon's socket.
ForeignSend(datagram) ==
    /\ dsent < MaxDatagrams
    /\ dsent' = dsent + 1
    /\ wire' = Append(wire, [bytes |-> datagram, cmd |-> {}])
    /\ UNCHANGED <<ipc_out, ipc_open>>
    /\ UNCHANGED ipcOthers

\* MetaCommandStream::poll_next when recv returns Ok: Ok(0) ends the stream,
\* any other length decodes the whole buffer.
StreamRecv ==
    /\ ipc_open
    /\ wire # <<>>
    /\ wire' = Tail(wire)
    /\ IF Len(Head(wire).bytes) = 0
         THEN /\ ipc_open' = FALSE
              /\ UNCHANGED ipc_out
         ELSE /\ LET cmd == Decode(RecvInto(Head(wire).bytes))
                 IN  ipc_out' = Append(ipc_out,
                         IF cmd = {} THEN IpcItem("InvalidCommand", {})
                         ELSE IpcItem("Meta", cmd))
              /\ UNCHANGED ipc_open
    /\ UNCHANGED dsent
    /\ UNCHANGED ipcOthers

\* MetaCommandStream::poll_next when recv or poll_readable fails with an
\* error other than WouldBlock: the error is an item of the stream.
StreamIoError ==
    /\ ipc_open
    /\ dsent < MaxDatagrams
    /\ dsent' = dsent + 1
    /\ ipc_out' = Append(ipc_out, IpcItem("Io", {}))
    /\ UNCHANGED <<wire, ipc_open>>
    /\ UNCHANGED ipcOthers

\* unix_socket::Backend::new and split: the socket is bound and empty.
IpcInit ==
    /\ wire = <<>>
    /\ dsent = 0
    /\ ipc_out = <<>>
    /\ ipc_open = TRUE

\* The IPC stream with a few commands of clients and the datagrams of other
\* senders: empty, one byte short of a command, an index that names no
\* variant, a bad bool, a bad Option tag, a variant index spelled with a
\* continuation byte, a number that never ends, and a datagram longer than
\* the buffer.
IpcStep ==
    \/ \E cmd \in {Cmd("Active", "Unset", FALSE, 0), Cmd("Power", "Off", TRUE, 0),
                    Cmd("Volume", "Set", FALSE, 200), Cmd("Mute", "Off", FALSE, 0)} :
           CliSend(cmd, MaxDatagrams)
    \/ \E datagram \in {<<>>, <<3>>, <<2, 1>>, <<5, 0, 0>>, <<0, 0, 2>>, <<3, 2, 0>>,
                         <<128, 0, 1>>, <<255, 255, 255>>, <<2, 2, 7, 9>>} :
           ForeignSend(datagram)
    \/ StreamRecv
    \/ StreamIoError

\* One client, any command: the encoding, the datagram and the decoding.
CodecStep ==
    \/ \E cmd \in MetaCommands : CliSend(cmd, MaxCodecSends)
    \/ StreamRecv

----------------------------------------------------------------------------
\* Translation of a MetaCommand to native calls: src/src/meta_command.rs:114-275

\* A native call and what it returned (a set of names: the address, the
\* power status, the addresses, or "Ok" / "Err").
Call(name, ret) == [call |-> name, ret |-> ret]

\* The volume levels and step counts of the model: small ones, the largest
\* level CEC reports, and values on both sides of the sign bit.
Levels == {0, 2, 3, 5, 7, 100, 127, 128, 200, 255}

NeedsActiveSourceBroken(power) == power # "On"
\* active_set_cooperative: the arms of the match that call active_set
NeedsActiveSource(power) == power \in {"InTransitionOnToStandby", "Standby", "Unknown"}

\* KnownAndRegisteredCecLogicalAddress::new(address).is_some()
KnownAndRegistered(address) == address \notin {"Unknown", "Unregistered"}

ContainsBroken(addresses, address) == addresses # {}
\* my_addresses.contains(&active_source)
Contains(addresses, address) == address \in addresses

\* volume_set: `volume as i8 - status.volume() as i8` in 8-bit two's
\* complement, then the branch taken and `steps as u8`.
VolumeSetSteps(volume, current) ==
    LET AsI8(x) == IF x >= 128 THEN x - 256 ELSE x
        steps == ((AsI8(volume) - AsI8(current) + 128) % 256) - 128
    IN  [going |-> IF steps >= 0 THEN "up" ELSE "down", steps |-> steps % 256]

\* run returns: `?` on a failed native call gives Err.
Returned(ret) == IF "Err" \in ret THEN "Err" ELSE "Ok"

Is(variant, sub) == \E cmd \in rcmd : cmd.variant = variant /\ cmd.sub = sub

Cooperative == \E cmd \in rcmd : cmd.cooperative

\* run_sync finishes with the native calls `made` and the result `res`.
Finish(made, res) ==
    /\ rpc' = "done"
    /\ calls' = calls \o made
    /\ rresult' = res
    /\ UNCHANGED <<rcmd, audio, left, going, ups, downs, vret>>
    /\ UNCHANGED cmdOthers

\* active_set, active_set_cooperative and active_unset
RunActive(source, power, ret) ==
    /\ rpc = "start"
    /\ \/ /\ Is("Active", "Set") /\ ~Cooperative
          /\ Finish(<<Call("set_active_source", {ret})>>, Returned({ret}))
       \/ /\ Is("Active", "Set") /\ Cooperative
          /\ LET asked == <<Call("get_active_source", {source}),
                            Call("get_device_power_status", {power})>>
             IN  IF NeedsActiveSource(power)
                   THEN Finish(asked \o <<Call("set_active_source", {ret})>>,
                               Returned({ret}))
                   ELSE Finish(asked, "Ok")
       \/ /\ Is("Active", "Unset")
          /\ Finish(<<Call("set_inactive_view", {ret})>>, Returned({ret}))

\* power_on, power_off and power_off_cooperative
RunPower(source, mine, ret) ==
    /\ rpc = "start"
    /\ \/ /\ Is("Power", "On")
          /\ Finish(<<Call("send_power_on_devices", {ret})>>, Returned({ret}))
       \/ /\ Is("Power", "Off") /\ ~Cooperative
          /\ Finish(<<Call("send_standby_devices", {ret})>>, Returned({ret}))
       \/ /\ Is("Power", "Off") /\ Cooperative
          /\ LET asked == <<Call("get_active_source", {source})>>
                 mines == <<Call("get_logical_addresses", mine)>>
             IN  IF ~KnownAndRegistered(source) THEN Finish(asked, "Ok")
                 ELSE IF Contains(mine, source)
                   THEN Finish(asked \o mines \o <<Call("send_standby_devices", {ret})>>,
                               Returned({ret}))
                 ELSE Finish(asked \o mines, "Ok")

\* volume_up, volume_down and volume_set up to the `for` loop. `level` is
\* what audio_get_status returns: {} for an error.
RunVolume(level) ==
    /\ rpc = "start"
    /\ \E cmd \in rcmd :
         \/ /\ cmd.variant = "Volume" /\ cmd.sub \in {"Up", "Down"}
            /\ rpc' = "loop"
            /\ going' = IF cmd.sub = "Up" THEN "up" ELSE "down"
            /\ left' = cmd.n
            /\ UNCHANGED <<audio, calls, rresult>>
         \/ /\ cmd.variant = "Volume" /\ cmd.sub = "Set"
            /\ audio' = level
            /\ calls' = Append(calls, Call("audio_get_status",
                                      IF level = {} THEN {"Err"} ELSE {"Ok"}))
            /\ IF level = {}
                 THEN /\ rpc' = "done"
                      /\ rresult' = "Err"
                      /\ UNCHANGED <<going, left>>
                 ELSE /\ rpc' = "loop"
                      /\ \E current \in level :
                            /\ going' = VolumeSetSteps(cmd.n, current).going
                            /\ left' = VolumeSetSteps(cmd.n, current).steps
                      /\ UNCHANGED rresult
    /\ UNCHANGED <<rcmd, ups, downs, vret>>
    /\ UNCHANGED cmdOthers

IgnoredBroken(ret) == ret = "Ok"
\* the arms `Ok(_) => ()` and `Err(CecAudioStatusError::Unknown) => ()`
Ignored(ret) == ret \in {"Ok", "Unknown"}

\* One turn of the loop of volume_up or volume_down: the native call, whose
\* result is Ok, Err(Unknown) (ignored) or another error (returned).
VolumeCall(ret) ==
    /\ rpc = "loop"
    /\ left > 0
    /\ ups' = IF going = "up" THEN ups + 1 ELSE ups
    /\ downs' = IF going = "down" THEN downs + 1 ELSE downs
    /\ vret' = ret
    /\ IF Ignored(ret)
         THEN left' = left - 1 /\ UNCHANGED <<rpc, rresult>>
         ELSE rpc' = "done" /\ rresult' = "Err" /\ UNCHANGED left
    /\ UNCHANGED <<rcmd, audio, going, calls>>
    /\ UNCHANGED cmdOthers

\* The loop is over: Ok(()).
VolumeEnd ==
    /\ rpc = "loop"
    /\ left = 0
    /\ rpc' = "done"
    /\ rresult' = "Ok"
    /\ UNCHANGED <<rcmd, audio, left, going, ups, downs, vret, calls>>
    /\ UNCHANGED cmdOthers

\* mute_toggle, mute_on and mute_off: the audio call, and the key press and
\* release sent to the TV when the audio status is unknown.
RunMute(muted, press, release) ==
    /\ rpc = "start"
    /\ \E cmd \in rcmd :
         /\ cmd.variant = "Mute"
         /\ LET native == IF cmd.sub \in {"None", "Toggle"} THEN "audio_toggle_mute"
                          ELSE "audio_mute"
                key == CASE cmd.sub \in {"None", "Toggle"} -> "Mute"
                         [] cmd.sub = "On" -> "MuteFunction"
                         [] cmd.sub = "Off" -> "RestoreVolumeFunction"
                first == <<Call(native, {muted})>>
                second == <<Call("send_keypress", {key, press})>>
                third == <<Call("send_key_release", {release})>>
            IN  IF muted # "Unknown" THEN Finish(first, Returned({muted}))
                ELSE IF press = "Err" THEN Finish(first \o second, "Err")
                ELSE Finish(first \o second \o third, Returned({release}))

\* deck_info_set
RunDeckInfo(ret) ==
    /\ rpc = "start"
    /\ \E cmd \in rcmd :
         /\ cmd.variant = "DeckInfo"
         /\ Finish(<<Call("set_deck_info", {cmd.sub, ret})>>, Returned({ret}))

\* No command is running.
CmdIdle ==
    /\ rpc = "idle"
    /\ rcmd = {}
    /\ audio = {}
    /\ left = 0
    /\ going = "up"
    /\ ups = 0
    /\ downs = 0
    /\ vret = "none"
    /\ calls = <<>>
    /\ rresult = "none"

\* MetaCommand::run is called on a command.
CmdInit ==
    /\ rpc = "start"
    /\ \E cmd \in {c \in MetaCommands : c.n \in Levels} : rcmd = {cmd}
    /\ audio = {}
    /\ left = 0
    /\ going = "up"
    /\ ups = 0
    /\ downs = 0
    /\ vret = "none"
    /\ calls = <<>>
    /\ rresult = "none"

\* The native library answers with any CecLogicalAddress (a part of them),
\* any CecPowerStatus, any set of own addresses, and Ok or an error.
RunStep ==
    \/ \E source \in {"Unknown", "Tv", "Recordingdevice1", "Playbackdevice1",
                       "Unregistered"} :
          \E power \in {"On", "Standby", "InTransitionStandbyToOn",
                        "InTransitionOnToStandby", "Unknown"} :
             \E ret \in {"Ok", "Err"} : RunActive(source, power, ret)
    \/ \E source \in {"Unknown", "Tv", "Recordingdevice1", "Playbackdevice1",
                       "Unregistered"} :
          \E mine \in SUBSET {"Recordingdevice1", "Playbackdevice1"} :
             \E ret \in {"Ok", "Err"} : RunPower(source, mine, ret)
    \/ \E level \in {{}} \cup {{l} : l \in Levels} : RunVolume(level)
    \/ \E ret \in {"Ok", "Unknown", "Err"} : VolumeCall(ret)
    \/ VolumeEnd
    \/ \E muted \in {"Ok", "Unknown", "Err"} : \E press \in {"Ok", "Err"} :
          \E release \in {"Ok", "Err"} : RunMute(muted, press, release)

\* DeckInfo is no sub-command of the command line (`#[clap(skip)]`): only
\* the daemon's media backend makes it.
CmdStep == RunStep \/ \E ret \in {"Ok", "Err"} : RunDeckInfo(ret)

----------------------------------------------------------------------------
\* The command-line client: src/src/main.rs:26-58, 169-201

ExitCodeBroken(result) == 0
\* main: ExitCode::SUCCESS for Ok(()), ExitCode::FAILURE for Err
ExitCode(result) == IF result = "Ok" THEN 0 ELSE 1

\* send(command) returns. Ok: the datagram is on the daemon's socket and
\* send_or_run returns Ok. Err: a notice (NotFound, ConnectionRefused) or an
\* error (any other io::Error) is logged and the direct connection is next.
CliSendResult(outcome) ==
    /\ clipc = "send"
    /\ sendres' = outcome
    /\ IF outcome = "Ok"
         THEN /\ \E cmd \in rcmd :
                    wire' = Append(wire, [bytes |-> Encode(cmd), cmd |-> {cmd}])
              /\ dsent' = dsent + 1
              /\ clipc' = "exit"
              /\ exit_code' = ExitCode("Ok")
              /\ UNCHANGED clog
         ELSE /\ clog' = Append(clog, IF outcome \in {"NotFound", "ConnectionRefused"}
                                        THEN "notice" ELSE "error")
              /\ clipc' = "open"
              /\ UNCHANGED <<wire, dsent, exit_code>>
    /\ UNCHANGED <<openres, ipc_out, ipc_open>>
    /\ UNCHANGED <<coreVars, udevVars, cmdVars, proxyVars>>

\* `cec_config().build().unwrap().open()?`: on Ok command.run is called, on
\* any CecConnectionError send_or_run returns it and main logs it.
CliOpen(outcome) ==
    /\ clipc = "open"
    /\ openres' = outcome
    /\ IF outcome = "Ok"
         THEN /\ clipc' = "run"
              /\ rpc' = "start"
              /\ UNCHANGED <<exit_code, clog>>
         ELSE /\ clipc' = "exit"
              /\ exit_code' = ExitCode(outcome)
              /\ clog' = Append(clog, "error")
              /\ UNCHANGED rpc
    /\ UNCHANGED <<sendres, rcmd, audio, left, going, ups, downs, vret, calls,
                   rresult>>
    /\ UNCHANGED <<coreVars, udevVars, ipcVars, proxyVars>>

\* `command.run(cec).await?` returns and main returns the exit code.
CliExit ==
    /\ clipc = "run"
    /\ rpc = "done"
    /\ clipc' = "exit"
    /\ exit_code' = ExitCode(rresult)
    /\ clog' = IF rresult = "Ok" THEN clog ELSE Append(clog, "error")
    /\ UNCHANGED <<sendres, openres>>
    /\ UNCHANGED <<coreVars, udevVars, ipcVars, cmdVars, proxyVars>>

\* No client runs.
CliIdle ==
    /\ clipc = "none"
    /\ sendres = "none"
    /\ openres = "none"
    /\ exit_code = -1
    /\ clog = <<>>

\* main with a meta-command sub-command: send_or_run(command) starts.
CliInit ==
    /\ clipc = "send"
    /\ sendres = "none"
    /\ openres = "none"
    /\ exit_code = -1
    /\ clog = <<>>
    /\ rpc = "idle"
    /\ \E cmd \in {c \in MetaCommands : c.n \in Levels /\ c.variant # "DeckInfo"} :
          rcmd = {cmd}
    /\ audio = {}
    /\ left = 0
    /\ going = "up"
    /\ ups = 0
    /\ downs = 0
    /\ vret = "none"
    /\ calls = <<>>
    /\ rresult = "none"

CliStep ==
    \/ \E outcome \in {"Ok", "NotFound", "ConnectionRefused", "PermissionDenied"} :
          CliSendResult(outcome)
    \/ \E outcome \in OpenOutcomes : CliOpen(outcome)
    \/ RunStep
    \/ CliExit

OrchInit ==
    /\ pc = "open"
    /\ cec = {}
    /\ sessions = {}
    /\ built = {}
    /\ cfgPort = "none"
    /\ attempts = 0
    /\ lastOpen = [port |-> "none", outcome |-> "NotYet", before |-> {}]
    /\ cur = StartItem
    /\ inbox = [b \in Backends |-> <<>>]
    /\ produced = [b \in Backends |-> <<>>]
    /\ applied = <<>>
    /\ arrivals = 0
    /\ opened = {}
    /\ rlog = <<>>

EvIdle ==
    /\ queue = <<>>
    /\ published = <<>>
    /\ inflight = <<>>
    /\ dispatched = <<>>
    /\ elog = <<>>

OrchStep(bound) ==
    \/ \E b \in Backends : \E item \in StreamItems(b) : Arrive(b, item, bound)
    \/ \E outcome \in OpenOutcomes : NativeOpen(outcome)
    \/ Assign
    \/ \E b \in Backends : Take(b)
    \/ \E ok \in BOOLEAN : RunDone(ok)

----------------------------------------------------------------------------
\* Remote-input backend: src/src/backend/wayland/mod.rs

\* The interfaces of the globals the server announces.
Interfaces == {"wl_seat", "gamescope_input_method_manager", "wl_output"}

\* The request Proxy::event makes for a zero-duration press of a key, before
\* the commit ({}: the `_ => ()` arm).
KeyRequest(key) ==
    CASE key = "Up" -> {[req |-> "set_action", arg |-> "MoveUp"]}
      [] key = "Down" -> {[req |-> "set_action", arg |-> "MoveDown"]}
      [] key = "Left" -> {[req |-> "set_action", arg |-> "MoveLeft"]}
      [] key = "Right" -> {[req |-> "set_action", arg |-> "MoveRight"]}
      [] key = "Select" -> {[req |-> "set_action", arg |-> "Submit"]}
      [] key = "Exit" -> {[req |-> "set_string", arg |-> "\\x1B"]}
      [] OTHER -> {}

\* The server announces a global (wl_registry.global), at startup or later.
ServerGlobal(interface) ==
    /\ wl_n < MaxGlobals
    /\ wl_n' = wl_n + 1
    /\ wl_in' = Append(wl_in, [ev |-> "Global", name |-> wl_n + 1, interface |-> interface])
    /\ UNCHANGED <<seat, input_method_manager, input_method, serial, srv_done, wpc,
                   wl_req, wl_flushed, wl_keys, wl_res>>
    /\ UNCHANGED wlOthers

\* The server sends gamescope_input_method.done with a new serial, once the
\* request that creates the input method has reached it.
ServerDone ==
    /\ srv_done < MaxDone
    /\ \E i \in 1..wl_flushed : wl_req[i].req = "create_input_method"
    /\ srv_done' = srv_done + 1
    /\ wl_in' = Append(wl_in, [ev |-> "Done", serial |-> srv_done + 1])
    /\ UNCHANGED <<wl_n, seat, input_method_manager, input_method, serial, wpc, wl_req,
                   wl_flushed, wl_keys, wl_res>>
    /\ UNCHANGED wlOthers

\* Dispatch<WlRegistry>::event and Dispatch<GamescopeInputMethod>::event, run
\* by dispatch_pending inside Backend::split (event_queue.dispatch and
\* event_queue.roundtrip), the only callers of dispatch_pending.
DispatchPending ==
    /\ wpc = "split"
    /\ wl_in # <<>>
    /\ wl_in' = Tail(wl_in)
    /\ LET e == Head(wl_in)
       IN  IF e.ev = "Done"
             THEN /\ serial' = e.serial
                  /\ UNCHANGED <<seat, input_method_manager, input_method, wl_req>>
             ELSE LET seat1 == IF e.interface = "wl_seat" THEN {e.name} ELSE seat
                      mgr1 == IF e.interface = "gamescope_input_method_manager"
                                THEN {e.name} ELSE input_method_manager
                      bind == IF e.interface \in {"wl_seat", "gamescope_input_method_manager"}
                                THEN <<[req |-> "bind", name |-> e.name,
                                        interface |-> e.interface]>>
                                ELSE <<>>
                      both == seat1 # {} /\ mgr1 # {}
                      create == IF both
                                  THEN <<[req |-> "create_input_method",
                                          seat |-> CHOOSE x \in seat1 : TRUE]>>
                                  ELSE <<>>
                  IN  /\ seat' = seat1
                      /\ input_method_manager' = mgr1
                      /\ input_method' =
                            IF both THEN {[seat |-> CHOOSE x \in seat1 : TRUE,
                                           id |-> Len(wl_req \o bind \o create)]}
                            ELSE input_method
                      /\ wl_req' = wl_req \o bind \o create
                      /\ UNCHANGED serial
    /\ UNCHANGED <<wl_n, srv_done, wpc, wl_flushed, wl_keys, wl_res>>
    /\ UNCHANGED wlOthers

\* AsyncEventQueue::dispatch finds nothing pending: flush, then read.
SplitFlush ==
    /\ wpc = "split"
    /\ wl_in = <<>>
    /\ wl_flushed < Len(wl_req)
    /\ wl_flushed' = Len(wl_req)
    /\ UNCHANGED <<wl_in, wl_n, seat, input_method_manager, input_method, serial,
                   srv_done, wpc, wl_req, wl_keys, wl_res>>
    /\ UNCHANGED wlOthers

\* The roundtrip's sync callback has been dispatched: split returns the Proxy.
SplitReturns ==
    /\ wpc = "split"
    /\ wl_in = <<>>
    /\ wpc' = "proxy"
    /\ UNCHANGED <<wl_in, wl_n, seat, input_method_manager, input_method, serial,
                   srv_done, wl_req, wl_flushed, wl_keys, wl_res>>
    /\ UNCHANGED wlOthers

\* Proxy::event up to `self.event_queue.flush().await`. `key` is the keycode
\* of a KeyPress ("none": another Event), `zero` its duration.is_zero().
WlEvent(key, zero) ==
    /\ wpc = "proxy"
    /\ wl_keys < MaxKeys
    /\ wl_keys' = wl_keys + 1
    /\ IF input_method # {} /\ zero /\ KeyRequest(key) # {}
         THEN /\ wl_req' = wl_req \o <<CHOOSE r \in KeyRequest(key) : TRUE,
                                       [req |-> "commit", serial |-> serial,
                                        latest |-> srv_done]>>
              /\ wpc' = "flush"
              /\ UNCHANGED wl_res
         ELSE /\ wl_res' = "Ok"
              /\ UNCHANGED <<wl_req, wpc>>
    /\ UNCHANGED <<wl_in, wl_n, seat, input_method_manager, input_method, serial,
                   srv_done, wl_flushed>>
    /\ UNCHANGED wlOthers

\* `self.event_queue.flush().await?` returns: the queue is written out, or
\* the socket reports an error.
WlFlush(ok) ==
    /\ wpc = "flush"
    /\ wpc' = "proxy"
    /\ wl_flushed' = IF ok THEN Len(wl_req) ELSE wl_flushed
    /\ wl_res' = IF ok THEN "Ok" ELSE "Err"
    /\ UNCHANGED <<wl_in, wl_n, seat, input_method_manager, input_method, serial,
                   srv_done, wl_req, wl_keys>>
    /\ UNCHANGED wlOthers

\* Backend::split has made State::new() and asked for the registry.
WlInit ==
    /\ wl_in = <<>>
    /\ wl_n = 0
    /\ seat = {}
    /\ input_method_manager = {}
    /\ input_method = {}
    /\ serial = 0
    /\ srv_done = 0
    /\ wpc = "split"
    /\ wl_req = <<>>
    /\ wl_flushed = 0
    /\ wl_keys = 0
    /\ wl_res = "none"

\* The remote-input backend with no display server event and no key press.
WlIdle ==
    /\ wl_in = <<>>
    /\ wl_n = 0
    /\ seat = {}
    /\ input_method_manager = {}
    /\ input_method = {}
    /\ serial = 0
    /\ srv_done = 0
    /\ wpc = "proxy"
    /\ wl_req = <<>>
    /\ wl_flushed = 0
    /\ wl_keys = 0
    /\ wl_res = "none"

WlStep ==
    \/ \E interface \in Interfaces : ServerGlobal(interface)
    \/ ServerDone
    \/ DispatchPending
    \/ SplitFlush
    \/ SplitReturns
    \/ \E key \in {"Up", "Select", "Exit", "Play", "none"} : \E zero \in BOOLEAN :
          WlEvent(key, zero)
    \/ \E ok \in BOOLEAN : WlFlush(ok)

----------------------------------------------------------------------------
\* Dispatch of one Event: src/src/main.rs:106-109 (try_join! of the bus and
\* the remote-input proxies), src/src/backend/dbus/mod.rs:58-62 (try_join! of
\* the media and the sleep/resume proxies) and
\* src/src/backend/dbus/mpris/mod.rs:45-135 (try_join_all over the players).
\* What the sleep/resume and the remote-input handlers do to their own state
\* is the subject of ProxyStandby and WlEvent; here they are futures that
\* complete at once or wait for a reply.

\* The Events of the model: zero-duration presses of two transport keys and
\* of a navigation key, a transport key held down, a Standby command, a log
\* message.
DispEvents == {"Play", "FastForward", "Up", "PlayHeld", "Standby", "LogMessage"}

\* mpris Proxy::event: the calls made on each player for a zero-duration
\* press of a key (<<>>: the `_ => ()` arms).
PlayerCalls(key) ==
    CASE key = "Play" -> <<"play">>
      [] key = "Pause" -> <<"play_pause">>
      [] key = "Stop" -> <<"stop">>
      [] key = "FastForward" -> <<"pause", "seek(10000000)">>
      [] key = "Rewind" -> <<"pause", "seek(-10000000)">>
      [] key = "Forward" -> <<"next">>
      [] key = "Backward" -> <<"previous">>
      [] OTHER -> <<>>

\* The futures that do the work of a dispatch, in the order in which one poll
\* of the outer try_join! reaches them: the players' calls (inside the media
\* proxy, polled first by the bus proxy's try_join!), the sleep/resume proxy,
\* the remote-input proxy.
Leaves(order) == order \o <<"logind", "wayland">>

\* Whether the future waits for a reply from outside the process; the others
\* complete with Ok(()) the first time they are polled.
Waits(leaf, event) ==
    CASE leaf = "logind" -> event = "Standby"
      [] leaf = "wayland" -> event = "Up"
      [] OTHER -> TRUE

\* The number of replies the future needs.
CallsOf(leaf, event) == IF leaf \in Names THEN Len(PlayerCalls(event)) ELSE 1

\* One poll of a join (try_join!, try_join_all): the unfinished futures are
\* polled in order and the poll stops at the first one that returns Err.
\* `st` is [fut, pdone]; `out` gives what each future's reply is by now.
RECURSIVE PollEach(_, _, _, _)
PollEach(leaves, st, event, out) ==
    IF leaves = <<>> THEN st
    ELSE LET l == Head(leaves)
             reply == IF Waits(l, event) THEN out[l] ELSE "Ok"
             d == IF l \in Names THEN st.pdone[l] ELSE 0
             polled == st.fut[l] \in {"new", "pending"}
             s1 == CASE ~polled -> st.fut[l]
                     [] reply = "Err" -> "err"
                     [] reply = "Ok" /\ d + 1 >= CallsOf(l, event) -> "ok"
                     [] OTHER -> "pending"
             d1 == IF polled /\ reply = "Ok" /\ l \in Names
                     THEN [st.pdone EXCEPT ![l] = d + 1] ELSE st.pdone
             st1 == [fut |-> [st.fut EXCEPT ![l] = s1], pdone |-> d1]
         IN  IF s1 = "err" THEN st1 ELSE PollEach(Tail(leaves), st1, event, out)

\* The orders in which the values of the table's HashMap can be iterated.
Orders(names) ==
    {o \in UNION {[1..k -> names] : k \in 0..Cardinality(names)} :
        /\ Len(o) = Cardinality(names)
        /\ \A i \in 1..Len(o) : \A j \in 1..Len(o) : i # j => o[i] # o[j]}

OnExecutorBroken(at) == at # "panicked"
\* Both tasks of serve run on one LocalExecutor: the event task is polled
\* only between two polls of the request task, never while
\* Stream::poll_next is running.
OnExecutor(at) == at = "idle"

\* The event task takes an Event and calls both proxies: the futures of
\* try_join! are made, none has been polled.
DispatchStart(event) ==
    /\ OnExecutor(mpc)
    /\ devent = "none"
    /\ dn < MaxDispatches
    /\ dn' = dn + 1
    /\ devent' = event
    /\ fut' = [l \in Names \cup {"logind", "wayland"} |->
                  IF l \in Names THEN "none" ELSE "new"]
    /\ pdone' = [n \in Names |-> 0]
    /\ dorder' = <<>>
    /\ dres' = "none"
    /\ UNCHANGED mprisVars
    /\ UNCHANGED dispOthers

\* One poll of the dispatch. The first one runs the media proxy's match: for
\* a zero-duration transport key it takes the table's lock (try_lock) and
\* makes one call future per resolved player. The guard is a temporary of
\* the statement `try_join_all(..).await?;`: it is dropped when the
\* statement ends, with Ok, with Err, or when the future is dropped.
\* `try_lock().unwrap()` panics when the lock is taken: the poll modelled
\* here is the one that finds it free.
DispatchPoll(out, order) ==
    /\ OnExecutor(mpc)
    /\ devent # "none"
    /\ dres = "none"
    /\ LET first == fut["logind"] = "new"
           keyed == PlayerCalls(devent) # <<>>
           ord == IF first /\ keyed THEN order ELSE dorder
           made == IF first /\ keyed
                     THEN [l \in DOMAIN fut |-> IF l \in IterPlayers(inner) THEN "new"
                                                ELSE fut[l]]
                     ELSE fut
           st == PollEach(Leaves(ord), [fut |-> made, pdone |-> pdone], devent, out)
           failed == \E l \in DOMAIN fut : st.fut[l] = "err"
           done == \A l \in DOMAIN fut : st.fut[l] \in {"none", "ok"}
           calling == \E n \in Names : st.fut[n] \in {"new", "pending"}
       IN  /\ (first /\ keyed) => plock = "free"
           /\ first => order \in Orders(IterPlayers(inner))
           /\ ~first => order = dorder
           /\ dorder' = ord
           /\ pdone' = st.pdone
           /\ fut' = IF failed
                       THEN [l \in DOMAIN fut |->
                               CASE st.fut[l] = "new" -> "unpolled"
                                 [] st.fut[l] = "pending" -> "dropped"
                                 [] OTHER -> st.fut[l]]
                       ELSE st.fut
           /\ dres' = IF failed THEN "Err" ELSE IF done THEN "Ok" ELSE "none"
           /\ plock' = IF ~failed /\ calling THEN "proxy" ELSE "free"
    /\ UNCHANGED <<devent, dn>>
    /\ UNCHANGED <<owner_changed, ownersent, inner, resolution, cached, notif, changes,
                   deck_info, mpc, has_updates, todo, cursor, emitted, parked>>
    /\ UNCHANGED dispOthers

\* log_result has the dispatch's result; the loop goes back to rx.recv().
DispatchReturn ==
    /\ OnExecutor(mpc)
    /\ devent # "none"
    /\ dres # "none"
    /\ devent' = "none"
    /\ UNCHANGED <<fut, pdone, dorder, dres, dn>>
    /\ UNCHANGED mprisVars
    /\ UNCHANGED dispOthers

\* Stream::poll_next while a dispatch holds the lock:
\* `ready!(self.backend.players.lock().poll_unpin(cx))` returns Pending, and
\* the lock future, a temporary, is dropped with the waker it had left in the
\* mutex. The wake-up that led to this poll is used up.
PollBlocked ==
    /\ mpc = "idle"
    /\ plock = "proxy"
    /\ parked \in {"no", "late"}
    /\ parked' = IF parked = "late" THEN "missed" ELSE "blocked"
    /\ UNCHANGED <<owner_changed, ownersent, inner, resolution, cached, notif, changes,
                   deck_info, plock, mpc, has_updates, todo, cursor, emitted>>
    /\ UNCHANGED dispVars
    /\ UNCHANGED dispOthers

DispIdle ==
    /\ devent = "none"
    /\ fut = [l \in Names \cup {"logind", "wayland"} |-> "none"]
    /\ pdone = [n \in Names |-> 0]
    /\ dorder = <<>>
    /\ dres = "none"
    /\ dn = 0

\* The player table when an Event arrives: any mix of absent, resolving and
\* resolved players, the stream between two polls.
DispInit ==
    /\ DispIdle
    /\ owner_changed = <<>>
    /\ ownersent = 0
    /\ inner \in [Names -> {"absent", "pending", "ready"}]
    /\ resolution = [n \in Names |-> IF inner[n] = "ready" THEN "taken" ELSE "wait"]
    /\ cached = [n \in Names |-> "Stopped"]
    /\ notif = [n \in Names |-> FALSE]
    /\ changes = 0
    /\ deck_info = DeckDefault
    /\ plock = "free"
    /\ mpc = "idle"
    /\ has_updates = FALSE
    /\ todo = {}
    /\ cursor = {}
    /\ emitted = <<>>
    /\ parked = "no"

DispStep ==
    \/ \E event \in DispEvents : DispatchStart(event)
    \/ \E out \in [Names \cup {"logind", "wayland"} -> {"Pending", "Ok", "Err"}] :
          \E order \in Orders(Names) \cup Orders({"mpv"}) \cup Orders({"vlc"}) \cup {<<>>} :
             DispatchPoll(out, order)
    \/ DispatchReturn

ProxyIdle == WlIdle /\ DispIdle

\* The components at the edge of the daemon, before any input.
EdgeIdle == UdevInit /\ IpcInit /\ CmdIdle /\ CliIdle /\ ProxyIdle

Init == OrchInit /\ EvIdle /\ LogindInit /\ MprisIdle /\ EdgeIdle

Next == OrchStep(MaxArrivals)

Spec == Init /\ [][Next]_vars

NextEvents == OrchStep(MaxArrivalsEv) \/ EvStep

SpecEvents == Init /\ [][NextEvents]_vars

\* The adapter's log messages as the event task sees them: "LogError" is an
\* Event::LogMessage whose level is CecLogLevel::Error, "LogMessage" one of
\* any other level. The event task prints either (main.rs:90-104) and then
\* dispatches it like every Event (106-109).
LogKinds == {"LogError", "LogMessage"}

NextLog ==
    \/ OrchStep(MaxArrivalsEv)
    \/ \E kind \in LogKinds : Publish(kind)
    \/ EventRecv
    \/ \E ok \in BOOLEAN : EventDone(ok)

SpecLog == Init /\ [][NextLog]_vars

\* serve() with both loops running long enough for an item to follow a failed
\* one: the request task and the event task, each with its own input bound.
\* The adapter reports key presses and log messages here (one kind the event
\* task prints itself, one it does not); the dispatch does not look at more.
NextFailures ==
    \/ OrchStep(MaxArrivalsFail)
    \/ \E kind \in {"KeyPress", "LogMessage"} :
          Len(published) < MaxEventsFail /\ Publish(kind)
    \/ EventRecv
    \/ \E ok \in BOOLEAN : EventDone(ok)

SpecFailures == Init /\ [][NextFailures]_vars

\* The sleep/resume backend on its own: the request task has ended its startup.
OrchIdle ==
    /\ pc = "recv"
    /\ cec = {}
    /\ sessions = {}
    /\ built = {}
    /\ cfgPort = "none"
    /\ attempts = 1
    /\ lastOpen = [port |-> "none", outcome |-> "NoAdapterFound", before |-> {}]
    /\ cur = StartItem
    /\ inbox = [b \in Backends |-> <<>>]
    /\ produced = [b \in Backends |-> <<>>]
    /\ applied = <<>>
    /\ arrivals = 0
    /\ opened = {}
    /\ rlog = <<>>

InitLogind == OrchIdle /\ EvIdle /\ LogindInit /\ MprisIdle /\ EdgeIdle

SpecLogind == InitLogind /\ [][LogindStep]_vars

InitMpris == OrchIdle /\ EvIdle /\ LogindInit /\ MprisInit /\ EdgeIdle

SpecMpris == InitMpris /\ [][MprisStep]_vars

\* The daemon's core with no connection, no event and no player: the state
\* the specifications of the edge components keep it in.
CoreIdle == OrchIdle /\ EvIdle /\ LogindInit /\ MprisIdle

\* An edge component on its own, next to the idle core.
InitEdge == CoreIdle /\ EdgeIdle

SpecUdev == InitEdge /\ [][UdevStep]_vars

SpecIpc == InitEdge /\ [][IpcStep]_vars

SpecCodec == InitEdge /\ [][CodecStep]_vars

\* run on any command, against any state of the bus
InitCmd == CoreIdle /\ UdevInit /\ IpcInit /\ CmdInit /\ CliIdle /\ ProxyIdle

SpecCmd == InitCmd /\ [][CmdStep]_vars

InitWl == CoreIdle /\ UdevInit /\ IpcInit /\ CmdIdle /\ CliIdle /\ WlInit /\ DispIdle

InitDisp ==
    /\ OrchIdle /\ EvIdle /\ LogindInit /\ UdevInit /\ IpcInit /\ CmdIdle /\ CliIdle
    /\ WlIdle /\ DispInit

SpecDisp == InitDisp /\ [][DispStep]_vars

\* The media stream and the dispatch of transport key presses together: the
\* request task polls the stream, the event task dispatches, the session bus
\* and the players change things in between.
NextPlayers ==
    \/ \E n \in Names : OwnerChanged(n, FALSE)
    \/ \E n \in Names : StatusChange(n, "Playing")
    \/ PollStart
    \/ DrainSignal
    \/ DrainEnd
    \/ \E n \in Names : NextPlayer(n)
    \/ \E n \in Names : StatusRead(n)
    \/ \E n \in Names : PlayerDone(n)
    \/ Recompute
    \/ dn < MaxKeyDispatches /\ DispatchStart("Play")
    \/ \E replies \in [Names -> {"Pending", "Ok", "Err"}] :
          \E order \in Orders(Names) \cup Orders({"mpv"}) \cup Orders({"vlc"}) \cup {<<>>} :
             DispatchPoll([l \in Names \cup {"logind", "wayland"} |->
                              IF l \in Names THEN replies[l] ELSE "Ok"], order)
    \/ DispatchReturn
    \/ PollBlocked

\* The players of the table are resolved ones; the stream is between two polls.
InitPlayers ==
    /\ OrchIdle /\ EvIdle /\ LogindInit /\ UdevInit /\ IpcInit /\ CmdIdle /\ CliIdle
    /\ WlIdle /\ DispInit
    /\ \A n \in Names : inner[n] # "pending"

SpecPlayers == InitPlayers /\ [][NextPlayers]_vars

SpecWl == InitWl /\ [][WlStep]_vars

InitCli == CoreIdle /\ UdevInit /\ IpcInit /\ CliInit /\ ProxyIdle

SpecCli == InitCli /\ [][CliStep]_vars

----------------------------------------------------------------------------
\* Properties of the request task and of the event channel

Last(seq) == seq[Len(seq)]

Untagged(r) == Item(r.kind, r.port)

\* The Requests of `applied` that came from backend b, in order.
AppliedOf(b) ==
    LET F[i \in 0..Len(applied)] ==
            IF i = 0 THEN <<>>
            ELSE IF applied[i].from = b THEN Append(F[i - 1], Untagged(applied[i]))
            ELSE F[i - 1]
    IN  F[Len(applied)]

\* The Requests (Ok items) of a sequence of stream items.
OkItems(seq) ==
    LET F[i \in 0..Len(seq)] ==
            IF i = 0 THEN <<>>
            ELSE IF seq[i].kind = "Err" THEN F[i - 1]
            ELSE Append(F[i - 1], seq[i])
    IN  F[Len(seq)]

\* The Request of backend b whose handler has started and not finished.
InHand(b) ==
    IF cur.from = b /\ pc \in {"open", "assign", "run"} THEN <<Untagged(cur)>> ELSE <<>>

NumResets(seq) == Cardinality({i \in 1..Len(seq) : seq[i].kind = "Reset"})

\* C1: in every reachable state of the request task, whatever the Requests and
\* the outcomes of the open attempts, at most one native CEC session is open.
C1_AtMostOneConnection == Cardinality(sessions) <= 1

\* C1 witness: a second session was opened by a reset and the first one is closed.
C1_Witness == opened = {1, 2} /\ sessions = {2} /\ cec = {2}

\* C2: a ResetDevice(port) makes its open attempt with no session open and with
\* the configuration pinned to its port ("none": not pinned); once the handler
\* is over, a connection is open exactly if that attempt succeeded.
C2_ResetDropsThenOpens ==
    /\ (pc = "open" /\ cur.kind = "Reset") =>
           (cec = {} /\ sessions = {} /\ cfgPort = cur.port)
    /\ (pc \in {"assign", "recv"} /\ cur.kind = "Reset") => lastOpen.before = {}
    /\ (pc = "recv" /\ applied # <<>> /\ Last(applied).kind = "Reset") =>
           /\ lastOpen.port = Last(applied).port
           /\ (cec # {}) <=> (lastOpen.outcome = "Ok")
           /\ sessions = cec
           /\ cec \subseteq {attempts}

\* C2 witness: a reset pinned to a port replaced an open connection.
C2_Witness ==
    /\ pc = "recv" /\ applied # <<>> /\ Last(applied).kind = "Reset"
    /\ Last(applied).port \in Ports
    /\ opened = {1, 2} /\ cec = {2}

\* C2 witness of the other outcome: the reset closed the connection and its
\* open attempt failed.
C2_WitnessFailed ==
    /\ pc = "recv" /\ applied # <<>> /\ Last(applied).kind = "Reset"
    /\ opened = {1} /\ cec = {} /\ lastOpen.outcome \in RecoverableErrors

\* The number of native open calls the startup and the ResetDevice requests
\* taken so far account for.
OpensDue ==
    (IF pc = "open" /\ cur.kind = "Start" THEN 0 ELSE 1)
    + NumResets(applied)
    + (IF cur.kind = "Reset" /\ pc \in {"assign", "exit_err"} THEN 1 ELSE 0)

\* C3: serve ends with an error exactly on a fatal open failure; after a
\* recoverable one the task has no connection, keeps taking requests, and makes
\* no open call other than the one of the startup and of each ResetDevice.
C3_OpenFailureClasses ==
    /\ (lastOpen.outcome \in FatalErrors) <=> (pc = "exit_err")
    /\ (lastOpen.outcome \in RecoverableErrors) =>
           (cec = {} /\ sessions = {} /\ pc \in {"assign", "recv", "open"})
    /\ attempts = OpensDue

\* C3 witness: after a recoverable failure a request was applied and no
\* further open call was made.
C3_Witness ==
    /\ lastOpen.outcome \in RecoverableErrors
    /\ pc = "recv"
    /\ applied # <<>> /\ Last(applied).kind \in {"Meta", "Remove"}
    /\ attempts = 1

\* C3 witness of the fatal class, on a ResetDevice.
C3_WitnessFatal == pc = "exit_err" /\ cur.kind = "Reset" /\ attempts = 2

\* C4: the Requests a backend produced are, in order, those applied, then the
\* one being applied, then those still waiting in the merge: none is lost,
\* repeated or reordered; and whenever the task waits for the next request,
\* every backend with an item ready may be the next one taken.
C4_RequestsOnceInOrder ==
    /\ \A b \in Backends :
           produced[b] = AppliedOf(b) \o InHand(b) \o OkItems(inbox[b])
           \/ (pc = "exit_err" /\ cur.from = b)
    /\ \A b \in Backends : (pc = "recv" /\ inbox[b] # <<>>) => ENABLED Take(b)

\* C4 witness: two requests of one backend and one of another were applied.
C4_Witness ==
    /\ Len(applied) = 3
    /\ \E b \in Backends : Len(AppliedOf(b)) = 2 /\ AppliedOf(b)[1] # AppliedOf(b)[2]

\* C5: every published Event is, in publication order, dispatched, or being
\* dispatched, or still queued: none is dropped, repeated or reordered; and at
\* most one dispatch is in progress.
C5_EventsOnceInOrder ==
    /\ published = dispatched \o inflight \o queue
    /\ Len(inflight) <= 1

\* C5 witness: a backlog built up behind a dispatch in progress and the
\* first Event has been dispatched.
C5_Witness == Len(dispatched) = 1 /\ Len(inflight) = 1 /\ Len(queue) = 1

\* C5 witness of the slow consumer: everything published is still queued.
C5_WitnessBacklog == Len(queue) = MaxEvents /\ dispatched = <<>>

----------------------------------------------------------------------------
\* Properties of the sleep/resume backend

\* The Requests (not the errors) among the items a handler yielded.
Requests(items) ==
    LET F[i \in 0..Len(items)] ==
            IF i = 0 THEN <<>>
            ELSE IF items[i] = StreamError THEN F[i - 1]
            ELSE Append(F[i - 1], items[i])
    IN  F[Len(items)]

SleepEnds == {i \in 1..Len(lhist) : ~lhist[i].start}
SleepStarts == {i \in 1..Len(lhist) : lhist[i].start}

\* C6: the process holds at most one inhibitor lock at any time, the moment a
\* new lock is acquired after a resume included.
C6_AtMostOneLock == Cardinality(fds) <= 1

\* C7: a sleep-start signal read while the lock is held yields exactly one
\* MetaCommand(Power::Off{cooperative: true}); one read while it is not held
\* yields nothing.
C7_SleepStartYield ==
    \A i \in SleepStarts :
        lhist[i].yielded = IF lhist[i].held THEN <<PowerOffCooperative>> ELSE <<>>

\* C7 witness: one sleep-start was read with the lock held and another one
\* after a Standby command had released it.
C7_Witness ==
    \E i \in SleepStarts : \E j \in SleepStarts : lhist[i].held /\ ~lhist[j].held

C9_ReleasedBeforeSleep ==
    (lhist # <<>> /\ Last(lhist).start) => (sleep_lock = {} /\ fds = {})

----------------------------------------------------------------------------
\* Properties of the media aggregation backend

ResolvedPlayers == {n \in Names : inner[n] = "ready"}

\* The most active status among the resolved players: Play if one of them is
\* Playing, else Still if one of them is Paused, else Stop.
MostActive ==
    IF \E n \in ResolvedPlayers : cached[n] = "Playing" THEN "Play"
    ELSE IF \E n \in ResolvedPlayers : cached[n] = "Paused" THEN "Still"
    ELSE "Stop"

\* A poll step that ends by recomputing the aggregate.
Recomputes == mpc = "iter" /\ todo = {} /\ cursor = {} /\ has_updates /\ mpc' = "idle"

\* C10: whenever the aggregate is recomputed, the value the step leaves in
\* deck_info (stored anew, or found equal to the stored one) is the minimum
\* under Play < Still < Stop over the resolved players' cached statuses, every
\* status other than Playing and Paused counting as Stop, and Stop with no
\* resolved player.
C10_AggregateIsMin == [][Recomputes => deck_info' = MostActive]_vars

\* C10 witness: two resolved players, one Playing and one Paused, were
\* aggregated to Play.
C10_Witness ==
    /\ mpc = "idle"
    /\ ResolvedPlayers = Names
    /\ \E a \in Names : \E b \in Names : cached[a] = "Playing" /\ cached[b] = "Paused"
    /\ \A n \in Names : ~notif[n]
    /\ changes = 2
    /\ deck_info = "Play"
    /\ emitted = <<"Play">>

\* C10 witness: {Paused, Stopped} was aggregated to Still.
C10_WitnessStill ==
    /\ mpc = "idle"
    /\ ResolvedPlayers = Names
    /\ \E a \in Names : \E b \in Names : cached[a] = "Paused" /\ cached[b] = "Stopped"
    /\ deck_info = "Still"
    /\ emitted = <<"Still">>

\* C10 witness: the only player was removed and the aggregate went back to Stop.
C10_WitnessEmpty ==
    /\ mpc = "idle"
    /\ \A n \in Names : inner[n] = "absent"
    /\ emitted = <<"Play", "Stop">>

\* C10 witness: a resolved player whose status is missing, unreadable or
\* unknown was aggregated as Stop next to a Paused one.
C10_WitnessUnknown ==
    /\ mpc = "idle"
    /\ ResolvedPlayers = Names
    /\ \E a \in Names : \E b \in Names :
           cached[a] \in {"Other", "None", "Err"} /\ cached[b] = "Paused"
    /\ \A n \in Names : ~notif[n]
    /\ deck_info = "Still"

----------------------------------------------------------------------------
\* Properties of the emitted aggregate

\* The DeckInfo values among the items the media stream yielded.
EmittedDecks ==
    LET F[i \in 0..Len(emitted)] ==
            IF i = 0 THEN <<>>
            ELSE IF emitted[i] = "Err" THEN F[i - 1]
            ELSE Append(F[i - 1], emitted[i])
    IN  F[Len(emitted)]

\* C11: over any sequence of player additions, removals and status changes,
\* two DeckInfo values emitted one after the other are never equal, the first
\* one emitted is never Stop, and the stored aggregate is the last value
\* emitted (Stop, its initial value, while none was emitted).
C11_EmittedOnlyOnChange ==
    LET decks == EmittedDecks
    IN  /\ \A i \in 1..(Len(decks) - 1) : decks[i] # decks[i + 1]
        /\ decks # <<>> => decks[1] # "Stop"
        /\ deck_info = IF decks = <<>> THEN "Stop" ELSE decks[Len(decks)]

\* C11 witness: a recomputation that found the stored value (Play, emitted
\* before) emitted nothing, and the later one that found Stop emitted it.
C11_Witness ==
    /\ mpc = "idle"
    /\ EmittedDecks = <<"Play", "Stop">>
    /\ changes = 2
    /\ deck_info = "Stop"

----------------------------------------------------------------------------
\* Properties of the hotplug filter

\* The known adapter identity, as sysfs spells it.
IsAdapterEvent(event) ==
    /\ event.parent = "usb_device"
    /\ event.idVendor = {<<"2", "5", "4", "8">>}
    /\ event.idProduct \in {{<<"1", "0", "0", "1">>}, {<<"1", "0", "0", "2">>}}

\* C12: each tty event the stream consumes adds to the Requests it yielded:
\* exactly ResetDevice(Some(devnode)) for an add event of a device whose USB
\* parent has vendor 2548 and product 1001 or 1002, exactly
\* RemoveDevice(devnode) for a remove event of such a device, and nothing for
\* any other identity, for no USB parent and for any other event type.
C12_HotplugFilter ==
    [][\A event \in uevent : (uevent' = {}) =>
          OkItems(uyield') = OkItems(uyield) \o
              (IF IsAdapterEvent(event) /\ event.type = "Add"
                 THEN <<Item("Reset", event.devnode)>>
               ELSE IF IsAdapterEvent(event) /\ event.type = "Remove"
                 THEN <<Item("Remove", event.devnode)>>
               ELSE <<>>)]_vars

\* C12 witness: an add event of the second product id and a remove event were
\* mapped, each to its Request with its device node.
C12_Witness ==
    /\ uevent = {}
    /\ usent = 2
    /\ uyield = <<Item("Reset", "/dev/ttyACM1"), Item("Remove", "/dev/ttyACM1")>>

----------------------------------------------------------------------------
\* Properties of the IPC stream and of the encoding

\* The stream takes the oldest datagram of the socket.
TakesDatagram == wire # <<>> /\ wire' = Tail(wire)

\* C13: a datagram whose bytes do not decode as a MetaCommand makes the stream
\* yield one InvalidCommand error and leaves it open, and a command carried by
\* a datagram taken after such an error is decoded and yielded.
C13_DecodeErrorKeepsStream ==
    [][TakesDatagram =>
          LET datagram == Head(wire).bytes
          IN  /\ Decode(datagram) = {} =>
                     /\ ipc_out' = Append(ipc_out, IpcItem("InvalidCommand", {}))
                     /\ ipc_open'
              /\ (/\ Decode(datagram) # {}
                  /\ \E i \in 1..Len(ipc_out) : ipc_out[i].kind = "InvalidCommand") =>
                     ipc_out' = Append(ipc_out, IpcItem("Meta", Decode(datagram)))]_vars

\* C14: every datagram a client sent carries an encoding no longer than the
\* buffer, and the stream that takes it yields the command the client encoded.
C14_RoundTrip ==
    /\ [](dsent = Len(wire) + Len(ipc_out))
    /\ [][TakesDatagram =>
             \A cmd \in Head(wire).cmd :
                 /\ Len(Head(wire).bytes) <= POSTCARD_MAX_SIZE
                 /\ ipc_out' = Append(ipc_out, IpcItem("Meta", {cmd}))]_vars

\* C14 witness: a Volume command with a field above 127 went through the
\* encoding, the socket and the decoding.
C14_Witness ==
    /\ dsent = 1
    /\ wire = <<>>
    /\ ipc_out = <<IpcItem("Meta", {Cmd("Volume", "Down", FALSE, 200)})>>

\* C14 witness: so did the command whose Option field is None.
C14_WitnessNone ==
    /\ dsent = 1
    /\ wire = <<>>
    /\ ipc_out = <<IpcItem("Meta", {Cmd("Mute", "None", FALSE, 0)})>>

----------------------------------------------------------------------------
\* Properties of the translation of commands

\* Volume-Set has returned Ok from current level `current` to target `target`.
VolumeSetDone(target, current) ==
    /\ rpc = "done"
    /\ rresult = "Ok"
    /\ rcmd = {Cmd("Volume", "Set", FALSE, target)}
    /\ audio = {current}

\* The calls of `calls` to the native function `name`.
CallsTo(name) == {i \in 1..Len(calls) : calls[i].call = name}

\* C15: for every target below the current level, a Volume-Set that returned
\* Ok made exactly (current - target) native volume-down calls and no
\* volume-up call.
C15_VolumeSetDown ==
    \A target \in Levels : \A current \in Levels :
        (target < current /\ VolumeSetDone(target, current)) =>
            (downs = current - target /\ ups = 0)

\* C16: for every target at or above the current level, a Volume-Set that
\* returned Ok made exactly (target - current) native volume-up calls and no
\* volume-down call.
C16_VolumeSetUp ==
    \A target \in Levels : \A current \in Levels :
        (target >= current /\ VolumeSetDone(target, current)) =>
            (ups = target - current /\ downs = 0)

\* C17: Active-Set with cooperative=true asks for the active source and its
\* power status and then makes no further native call when the status is On
\* or in transition to on, and exactly one set-active-source call when it is
\* Standby, in transition to standby or Unknown; with cooperative=false it
\* makes exactly one set-active-source call and no other.
C17_ActiveSetCooperative ==
    (rpc = "done" /\ Is("Active", "Set")) =>
        IF Cooperative
          THEN /\ Len(calls) >= 2
               /\ calls[1].call = "get_active_source"
               /\ calls[2].call = "get_device_power_status"
               /\ \A power \in calls[2].ret :
                     IF power \in {"On", "InTransitionStandbyToOn"}
                       THEN Len(calls) = 2
                       ELSE Len(calls) = 3 /\ calls[3].call = "set_active_source"
          ELSE Len(calls) = 1 /\ calls[1].call = "set_active_source"

\* C17 witness: the active source was in standby and the cooperative
\* Active-Set asserted the active source.
C17_Witness ==
    /\ rpc = "done"
    /\ Is("Active", "Set") /\ Cooperative
    /\ Len(calls) = 3
    /\ calls[2] = Call("get_device_power_status", {"Standby"})
    /\ calls[3] = Call("set_active_source", {"Ok"})

\* C17 witness: the active source was on and nothing was asserted.
C17_WitnessOn ==
    /\ rpc = "done"
    /\ Is("Active", "Set") /\ Cooperative
    /\ calls = <<Call("get_active_source", {"Tv"}), Call("get_device_power_status", {"On"})>>
    /\ rresult = "Ok"

\* C18: a cooperative Power-Off makes a standby call exactly when the active
\* source is a known, registered address that is one of the caller's own
\* logical addresses; otherwise it makes no standby call and returns Ok.
C18_PowerOffCooperative ==
    (rpc = "done" /\ Is("Power", "Off") /\ Cooperative) =>
        LET own == {i \in CallsTo("get_logical_addresses") :
                       \E source \in calls[1].ret :
                           source \notin {"Unknown", "Unregistered"}
                           /\ source \in calls[i].ret}
        IN  /\ calls # <<>> /\ calls[1].call = "get_active_source"
            /\ Cardinality(CallsTo("send_standby_devices")) = (IF own # {} THEN 1 ELSE 0)
            /\ own = {} => rresult = "Ok"

\* C18 witness: this device was the active source and the standby was sent.
C18_Witness ==
    /\ rpc = "done"
    /\ Is("Power", "Off") /\ Cooperative
    /\ calls = <<Call("get_active_source", {"Playbackdevice1"}),
                 Call("get_logical_addresses", {"Playbackdevice1"}),
                 Call("send_standby_devices", {"Ok"})>>

\* C18 witness: another device (the TV's own tuner, say) was the active
\* source and no standby was sent.
C18_WitnessOther ==
    /\ rpc = "done"
    /\ Is("Power", "Off") /\ Cooperative
    /\ calls = <<Call("get_active_source", {"Tv"}),
                 Call("get_logical_addresses", {"Playbackdevice1"})>>
    /\ rresult = "Ok"

----------------------------------------------------------------------------
\* Properties of the command-line client

\* C19: the client attempts the IPC delivery first. When the delivery
\* succeeded it opens no direct connection, runs nothing and exits with 0.
\* When it failed, whatever the error, it opens a direct connection and, if
\* that succeeded, runs the command over it; it exits with 1 exactly when the
\* open or the command failed, and with 0 otherwise.
C19_SendOrRun ==
    /\ (openres # "none" \/ rpc # "idle") => sendres \notin {"none", "Ok"}
    /\ clipc = "exit" =>
          IF sendres = "Ok"
            THEN openres = "none" /\ rpc = "idle" /\ calls = <<>> /\ exit_code = 0
            ELSE /\ openres # "none"
                 /\ (openres = "Ok") <=> (rpc = "done")
                 /\ exit_code \in {0, 1}
                 /\ (exit_code = 1) <=> (openres # "Ok" \/ rresult = "Err")

\* C19 witness: the delivery failed with an error other than an absent socket
\* or a refused connection, the direct connection was opened and the command
\* failed on it: exit code 1.
C19_Witness ==
    /\ clipc = "exit"
    /\ sendres = "PermissionDenied"
    /\ openres = "Ok"
    /\ rresult = "Err"
    /\ exit_code = 1
    /\ clog = <<"error", "error">>

\* C19 witness: the socket was absent and the command ran over the direct
\* connection: exit code 0.
C19_WitnessFallback ==
    /\ clipc = "exit"
    /\ sendres = "NotFound"
    /\ openres = "Ok"
    /\ rresult = "Ok"
    /\ calls # <<>>
    /\ exit_code = 0

\* C19 witness: the delivery succeeded.
C19_WitnessSent ==
    /\ clipc = "exit"
    /\ sendres = "Ok"
    /\ Len(wire) = 1
    /\ exit_code = 0

----------------------------------------------------------------------------
\* Properties of the daemon's error handling

C20_WitnessStreamError ==
    /\ rlog = <<0>> /\ Len(applied) = 1 /\ pc = "recv"

----------------------------------------------------------------------------
\* Properties of the request task's handling of single Requests

\* The request task takes an item of the given kind from some backend stream.
TakesKind(kind) ==
    \E b \in Backends :
        /\ pc = "recv"
        /\ inbox[b] # <<>>
        /\ Head(inbox[b]).kind = kind
        /\ inbox'[b] = Tail(inbox[b])

\* C21: a MetaCommand taken while no connection is open is dropped in that
\* step: no native call (the task does not enter the command, no open
\* attempt), no error line, still no connection.  One taken while a
\* connection is open enters the command against it, and neither that step
\* nor the command's completion closes or replaces the connection.
C21_MetaCommandDroppedOrRun ==
    [][/\ (TakesKind("Meta") /\ cec = {}) =>
              /\ pc' = "recv" /\ cec' = {} /\ built' = {}
              /\ attempts' = attempts /\ sessions' = sessions /\ rlog' = rlog
       /\ (TakesKind("Meta") /\ cec # {}) =>
              /\ pc' = "run" /\ cur'.kind = "Meta"
              /\ cec' = cec /\ sessions' = sessions /\ attempts' = attempts
       /\ pc = "run" =>
              /\ cec' = cec /\ sessions' = sessions /\ attempts' = attempts
              /\ pc' \in {"run", "recv"}]_vars

\* C21 witness: the only Request applied is a MetaCommand that found no
\* connection (the first open found no adapter) and was dropped.
C21_Witness ==
    /\ Len(applied) = 1 /\ applied[1].kind = "Meta"
    /\ cec = {} /\ opened = {} /\ rlog = <<>> /\ attempts = 1 /\ pc = "recv"

\* C21 witness: a MetaCommand ran to its end against the open connection.
C21_WitnessRun ==
    /\ Len(applied) = 1 /\ applied[1].kind = "Meta"
    /\ cec # {} /\ cec = sessions /\ attempts = 1 /\ pc = "recv"

\* C22: the step that takes a RemoveDevice leaves no connection and no native
\* session open and makes no open attempt; and while the task waits at
\* stream.next() without a connection, every step that does not take a
\* ResetDevice (a MetaCommand, a RemoveDevice, an error item, an arrival)
\* leaves it without connection, without session and without open attempt.
C22_RemoveDeviceDisconnects ==
    [][/\ TakesKind("Remove") =>
              /\ cec' = {} /\ sessions' = {} /\ built' = {}
              /\ attempts' = attempts /\ pc' = "recv"
       /\ (pc = "recv" /\ cec = {} /\ ~TakesKind("Reset")) =>
              /\ cec' = {} /\ sessions' = {} /\ built' = {}
              /\ attempts' = attempts /\ pc' = "recv"]_vars

\* C22 witness: the connection opened at startup was removed, and a
\* MetaCommand and a second RemoveDevice applied after it found and left the
\* orchestrator disconnected.
C22_Witness ==
    /\ Len(applied) = 3
    /\ applied[1].kind = "Remove" /\ applied[2].kind = "Meta" /\ applied[3].kind = "Remove"
    /\ opened = {1} /\ attempts = 1
    /\ cec = {} /\ sessions = {} /\ pc = "recv"

----------------------------------------------------------------------------
\* Properties of the sleep/resume backend's Proxy

\* The first sleep-start signal the stream read after it had read n signals
\* (0 when it has read none since).
NextSleepStart(n) ==
    LET later == {i \in SleepStarts : i > n}
    IN  IF later = {} THEN 0 ELSE CHOOSE i \in later : \A j \in later : i <= j

\* C23: the Proxy call for a Standby command leaves the lock released and a
\* suspend requested; the Proxy call for any other Event leaves the lock as
\* it was and requests no suspend; and the first sleep-start signal read
\* after a Standby command was handled yields no power-off Request.
C23_StandbySuppressesPowerOff ==
    /\ [][Len(phist') > Len(phist) =>
             IF Last(phist').event = "Standby"
               THEN /\ sleep_lock' = {} /\ fds' = fds \ sleep_lock
                    /\ Last(phist').suspend = "pending"
               ELSE /\ sleep_lock' = sleep_lock /\ fds' = fds
                    /\ Last(phist').suspend = "none"]_vars
    /\ [](\A k \in 1..Len(phist) :
             (phist[k].event = "Standby" /\ NextSleepStart(phist[k].read) # 0) =>
                 lhist[NextSleepStart(phist[k].read)].yielded = <<>>)

----------------------------------------------------------------------------
\* Properties of the player table

\* The step reads one NameOwnerChanged signal in the first loop of the poll.
ReadsOwnerChanged ==
    mpc = "drain" /\ owner_changed # <<>> /\ owner_changed' = Tail(owner_changed)

\* C24: reading an ownership-change signal leaves an entry for its name
\* exactly if it reported a new owner, leaves the other entries alone, and an
\* owner-lost signal removes the entry in that very step (whatever the state
\* of the player's status stream) and flags the poll for recomputation; no
\* other step adds or removes an entry; and a poll step that was flagged by
\* an owner-lost signal (no playback status has changed so far) ends by
\* recomputing the aggregate.
C24_TableFollowsOwnership ==
    [][/\ ReadsOwnerChanged =>
              LET sig == Head(owner_changed)
              IN  /\ (inner'[sig.name] # "absent") <=> sig.new_owner
                  /\ \A n \in Names \ {sig.name} : inner'[n] = inner[n]
                  /\ ~sig.new_owner => has_updates'
       /\ ~ReadsOwnerChanged =>
              \A n \in Names : (inner'[n] = "absent") <=> (inner[n] = "absent")
       /\ (mpc = "iter" /\ has_updates /\ changes = 0 /\ mpc' = "idle") =>
              (Recomputes /\ deck_info' = MostActive)]_vars

----------------------------------------------------------------------------
\* Properties of the volume commands

\* The step makes one native volume call.
MakesVolumeCall == ups' + downs' = ups + downs + 1

\* C25: every native call of Volume Up (Down) is a volume-up (volume-down)
\* call; a call that returns Ok or the unknown audio status is followed by
\* the remaining steps and sets no error; a call that returns another error
\* ends the command with that error, the remaining steps not made; and a
\* command that ended Ok made exactly `steps` calls, one that ended with an
\* error at most `steps`, the last of which returned the error.
C25_VolumeSteps ==
    /\ [][(MakesVolumeCall /\ \E cmd \in rcmd : cmd.sub \in {"Up", "Down"}) =>
             /\ \E cmd \in rcmd : IF cmd.sub = "Up" THEN ups' = ups + 1
                                                    ELSE downs' = downs + 1
             /\ IF vret' \in {"Ok", "Unknown"}
                  THEN rpc' = "loop" /\ rresult' = "none" /\ left' = left - 1
                  ELSE rpc' = "done" /\ rresult' = "Err" /\ vret' = "Err"]_vars
    /\ [](\A cmd \in rcmd :
             (cmd.variant = "Volume" /\ cmd.sub \in {"Up", "Down"} /\ rpc = "done") =>
                 LET made == IF cmd.sub = "Up" THEN ups ELSE downs
                 IN  /\ ups + downs = made
                     /\ rresult = "Ok" => (made = cmd.n /\ vret # "Err")
                     /\ rresult = "Err" => (made \in 1..cmd.n /\ vret = "Err")
                     /\ rresult \in {"Ok", "Err"})

\* C25 witness: Volume Up{3} returned Ok after three volume-up calls, the
\* last of which reported the unknown audio status.
C25_Witness ==
    /\ rcmd = {Cmd("Volume", "Up", FALSE, 3)}
    /\ rpc = "done" /\ rresult = "Ok" /\ ups = 3 /\ downs = 0 /\ vret = "Unknown"

\* C25 witness: Volume Down{5} stopped with the error of its second call.
C25_WitnessError ==
    /\ rcmd = {Cmd("Volume", "Down", FALSE, 5)}
    /\ rpc = "done" /\ rresult = "Err" /\ downs = 2 /\ ups = 0 /\ vret = "Err"

----------------------------------------------------------------------------
\* Properties of the remote-input backend

Commits == {i \in 1..Len(wl_req) : wl_req[i].req = "commit"}

\* C28: every commit carries the serial of the last `done` notification the
\* server had sent when the commit was made; every action or string request
\* is directly followed by a commit; and a dispatch that made them returns Ok
\* only with the whole outbound queue written out.
C28_CommitUsesLatestSerial ==
    /\ [](\A i \in Commits : wl_req[i].serial = wl_req[i].latest)
    /\ [](\A i \in 1..Len(wl_req) :
             wl_req[i].req \in {"set_action", "set_string"} =>
                 (i + 1) \in Commits)
    /\ [][(wpc = "flush" /\ wl_res' = "Ok") => wl_flushed' = Len(wl_req)]_vars

\* The global name of the first seat the client was told of.
FirstSeat ==
    LET binds == {i \in 1..Len(wl_req) :
                     wl_req[i].req = "bind" /\ wl_req[i].interface = "wl_seat"}
    IN  IF binds = {} THEN {}
        ELSE {wl_req[CHOOSE i \in binds : \A j \in binds : i <= j].name}

\* C29: the input method is bound to the first seat announced, and once it
\* exists no later announcement changes the seat or replaces the input
\* method.
C29_FirstSeatKept ==
    /\ [](\A m \in input_method : m.seat \in FirstSeat)
    /\ [][input_method # {} => (input_method' = input_method /\ seat' = seat)]_vars

----------------------------------------------------------------------------
\* Claims about the dispatch of one Event.

\* The sub-proxy failed while handling the Event of the dispatch.
SubFailed(p) ==
    IF p = "mpris" THEN \E n \in Names : fut[n] = "err" ELSE fut[p] = "err"

\* The sub-proxy's handling of the Event ran to its end.
SubCompleted(p) ==
    IF p = "mpris"
      THEN \A n \in Names : fut[n] \in {"none", "ok"} /\ fut["logind"] # "new"
      ELSE fut[p] = "ok"

\* The number of calls the dispatch has sent to the player.
Issued(n) ==
    CASE fut[n] \in {"none", "new", "unpolled"} -> 0
      [] fut[n] = "ok" -> pdone[n]
      [] OTHER -> pdone[n] + 1

\* C26: every Event is dispatched to every sub-proxy, and when the dispatch
\* reports an error every sub-proxy other than a failed one has run its
\* handling of the Event to completion: none was dropped, polled or not.
C26_OthersCompletionAwaited ==
    dres = "Err" =>
        \A p \in {"mpris", "logind", "wayland"} : SubFailed(p) \/ SubCompleted(p)

\* C27: when the dispatch of a zero-duration transport key press has
\* returned, every call of the key was issued to every resolved player and
\* completed (with a reply or an error), and the dispatch returned an error
\* exactly when some call failed.
C27_BroadcastToEveryPlayer ==
    (dres # "none" /\ PlayerCalls(devent) # <<>>) =>
        /\ \A n \in IterPlayers(inner) :
              \/ fut[n] = "ok" /\ pdone[n] = Len(PlayerCalls(devent))
              \/ fut[n] = "err" /\ Issued(n) = pdone[n] + 1
        /\ dres = "Err" <=> \E n \in Names : fut[n] = "err"

\* C30: between two steps of the tasks (the Stream is not inside a poll, the
\* dispatch is suspended or not running) the player table's lock is free.
C30_LockFreeAtAwait ==
    mpc = "idle" => plock = "free"

----------------------------------------------------------------------------
\* Claims about log messages, blocking calls and the lock of the player table.

\* C31: a log message of error severity ends the process: once the event task
\* has handled one, no Event is taken from the queue or dispatched after it
\* and the request task applies nothing more. Log messages of other
\* severities leave the daemon running.
C31_ErrorLogTerminates ==
    /\ [](\A i \in 1..Len(dispatched) :
            dispatched[i].kind = "LogError" => i = Len(dispatched) /\ inflight = <<>>)
    /\ [][(\E i \in 1..Len(dispatched) : dispatched[i].kind = "LogError")
            => applied' = applied]_vars

\* C32: while a MetaCommand's blocking calls execute (on the blocking pool,
\* awaited by the request task) the scheduler still runs the event task: a
\* queued Event can be received and a dispatch can finish. The request task
\* itself applies nothing until the command has completed, and what it then
\* records first is that command.
C32_RunDoesNotStall ==
    /\ []((pc = "run" /\ queue # <<>> /\ inflight = <<>>) => ENABLED EventRecv)
    /\ []((pc = "run" /\ inflight # <<>>) => ENABLED EventDone(TRUE))
    /\ [][pc = "run" =>
            /\ inbox' = inbox \/ (pc' = "run" /\ applied' = applied)
            /\ <<cec, sessions, cur>>' = <<cec, sessions, cur>>
            /\ applied' # applied => (applied' = Append(applied, cur) /\ pc' = "recv")]_vars

\* A command is executing, an Event published meanwhile has been dispatched
\* and another is being dispatched, and a Request is waiting in a stream.
C32_Witness ==
    /\ pc = "run"
    /\ Len(dispatched) >= 1
    /\ inflight # <<>>
    /\ \E b \in Backends : inbox[b] # <<>>

\* C39: a meta-command executes against the open connection the request task
\* holds, and until it has completed that connection is neither closed nor
\* replaced and no other Request (a second command, ResetDevice,
\* RemoveDevice) is taken: the next thing applied is the command itself.
C39_CommandOwnsConnection ==
    /\ [](pc = "run" => (cec # {} /\ cec \subseteq sessions /\ cur.kind = "Meta"))
    /\ [][pc = "run" =>
            /\ <<cec, sessions, cur>>' = <<cec, sessions, cur>>
            /\ \A b \in Backends : Len(inbox'[b]) >= Len(inbox[b])
            /\ pc' \in {"run", "recv"}
            /\ pc' = "recv" => applied' = Append(applied, cur)]_vars

\* A command is executing while a ResetDevice or RemoveDevice is waiting.
C39_Witness ==
    /\ pc = "run"
    /\ \E b \in Backends :
          inbox[b] # <<>> /\ Head(inbox[b]).kind \in {"Reset", "Remove"}

\* The ResetDevice or RemoveDevice that waited was applied after the command.
C39_WitnessApplied ==
    \E i \in 1..Len(applied) - 1 :
        applied[i].kind = "Meta" /\ applied[i + 1].kind \in {"Reset", "Remove"}

\* C40: when Mute Off has run against a connection whose audio status is
\* known (the native mute call answered), the call it made is not the one
\* Mute On makes, audio_mute, whose effect is to mute the audio.
C40_MuteOffUnmutes ==
    (rpc = "done" /\ Is("Mute", "Off") /\ calls # <<>> /\ calls[1].ret = {"Ok"})
        => calls[1].call # "audio_mute"

\* C38: no datagram the stream receives, whatever its length, ends the
\* stream: after taking it the stream is still open, so that the datagrams
\* that follow are received in their turn.
C38_NoDatagramEndsStream ==
    /\ [][TakesDatagram => ipc_open']_vars
    /\ [](wire # <<>> => ENABLED StreamRecv)

\* C37: when the Inhibit call after a sleep-end signal fails, the handler of
\* that signal has yielded ResetDevice(None) and then the error, once, and
\* the stream goes on: a signal that arrives afterwards is still read.
C37_InhibitFailureKeepsStream ==
    /\ [](\A i \in 1..Len(lhist) :
            (\E j \in 1..Len(lhist[i].yielded) : lhist[i].yielded[j] = StreamError)
                => lhist[i].yielded = <<ResetDeviceNone, StreamError>>)
    /\ []((signals # <<>> /\ lpc \notin {"resumed", "store"}) => ENABLED StreamSignal)

\* C34: a poll step of the media stream does not poll a pending entry a
\* second time: when an entry's resolution future is not complete the step
\* goes on to the next entry and returns, it never loops on that entry.
C34_PollStepReturns ==
    mpc # "spin"

\* C36: the failure of a player's resolution is yielded once, and no later
\* poll of the stream polls that player's completed future again: the stream
\* never panics and a poll that has started can go on to its return.
C36_FailedPlayerNotRepolled ==
    /\ mpc # "panicked"
    /\ \A n \in Names :
          (mpc = "iter" /\ cursor = {n} /\ inner[n] = "pending")
              => resolution[n] # "taken"

\* C33: whenever the event task is about to poll a key-press dispatch for
\* the first time, which is when the media Proxy calls try_lock on the
\* player table, the lock is free: neither the Stream nor an earlier dispatch
\* holds it, so the unwrap of try_lock's result does not panic.
C33_TryLockSucceeds ==
    (/\ OnExecutor(mpc)
     /\ devent # "none"
     /\ dres = "none"
     /\ fut["logind"] = "new"
     /\ PlayerCalls(devent) # <<>>) => plock = "free"

\* A second key press is about to be dispatched to a resolved player after
\* the stream has been polled, has yielded, and an earlier dispatch is over.
C33_Witness ==
    /\ dn = 2
    /\ devent = "Play"
    /\ dres = "none"
    /\ fut["logind"] = "new"
    /\ IterPlayers(inner) # {}
    /\ emitted # <<>>

\* C35: a change that arrived while a dispatch held the lock is processed
\* once the lock is released without another wake-up: when the poll made for
\* such a change found the lock taken, the stream is not left waiting after
\* the release, with nothing having woken it since, while an ownership
\* signal or a status change is unread.
C35_ChangeProcessedAfterRelease ==
    (mpc = "idle" /\ plock = "free" /\ parked = "missed") =>
        /\ owner_changed = <<>>
        /\ \A n \in IterPlayers(inner) : ~notif[n]

====
